---------------------------- MODULE Spec2Model ----------------------------
(***************************************************************************)
(* PhoneConnect client, Bluetooth call-audio activation                    *)
(* (client/src/bluetooth.rs).                                              *)
(*                                                                         *)
(* One Bluetooth card, the WirePlumber autoswitch setting, the pw-loopback *)
(* processes and the HfpSession values held by the caller.  One thread     *)
(* runs the public entry points (activate_hfp, switch_to_hfp,              *)
(* switch_to_a2dp, Drop for HfpSession) one external command at a time;    *)
(* the outcome of every external command (pactl, wpctl, pw-loopback) is    *)
(* chosen by the environment.                                              *)
(***************************************************************************)
EXTENDS Naturals, Sequences, FiniteSets

\* ---------------------------------------------------------------- bounds

\* Public entry points called in one run.
MaxOps == 3
\* HfpSession values the caller can hold.
MaxSessions == 1
\* Profiles one card advertises.
MaxProfiles == 3

\* ------------------------------------------------------ program constants

\* wait_for: Duration::from_secs(4) at both call sites, in milliseconds.
TimeoutMs == 4000
\* wait_for: thread::sleep(Duration::from_millis(200)).
PollMs == 200

\* (a bug: the candidates are walked from the last to the first)
A2dpCandidates_M ==
  << "a2dp-sink-sbc", "a2dp-sink-sbc_xq", "a2dp-sink-aac", "a2dp-sink" >>

\* switch_to_a2dp: the candidates, in the order of the array.
A2dpCandidates ==
  << "a2dp-sink", "a2dp-sink-aac", "a2dp-sink-sbc_xq", "a2dp-sink-sbc" >>

A2dpProfiles == { A2dpCandidates[i] : i \in 1..Len(A2dpCandidates) }

HeadsetProfiles ==
  { "headset-head-unit", "headset-head-unit-cvsd", "headset-head-unit-msbc" }

\* The profile names a card can advertise ("off", which every card lists and
\* no branch of the code reads, is the initial active profile only).
ProfileNames == A2dpProfiles \cup HeadsetProfiles \cup { "audio-gateway" }

\* enum HfpCodec
HfpCodec == { "MSbc", "Cvsd", "PhoneGateway" }

\* The state a source or sink line of `pactl list ... short` shows for the
\* card's node, or "absent" when no line names the node.
NodeStates == { "absent", "SUSPENDED", "IDLE", "RUNNING" }

\* Option<Child>::None
NoChild == [ name |-> "none", act |-> 0 ]

\* Option<HfpSessionInner>: None, or Some with its two Option<Child> fields.
NoneInner == [ some |-> FALSE, mic_loopback |-> NoChild, speaker_loopback |-> NoChild ]

\* (a bug: the speaker handle is not stored)
SomeInner_M(mic, speaker) ==
  [ some |-> TRUE, mic_loopback |-> mic, speaker_loopback |-> NoChild ]

SomeInner(mic, speaker) ==
  [ some |-> TRUE, mic_loopback |-> mic, speaker_loopback |-> speaker ]

\* A session slot of the caller: no value yet ("none"), a value held, or a
\* value whose drop has run ("released"); drops counts the runs of its drop.
\* act names the activate_hfp call that built the value.
NoSession ==
  [ state |-> "none", drops |-> 0, codec |-> "none", inner |-> NoneInner, act |-> 0 ]

NoResult ==
  [ kind |-> "none", codec |-> "none", err |-> "none", profiles |-> {}, cards |-> << >> ]

\* No wait_for call stands alone.
NoWait == [ timeout |-> 0, from |-> 0, until |-> 0, evals |-> << >> ]

\* Option<T>
None == [ some |-> FALSE, v |-> << >> ]
Some(x) == [ some |-> TRUE, v |-> x ]

\* No gateway scan runs.
NoDisc ==
  [ timeout |-> 0, mdns |-> "none", browse |-> "none", events |-> << >>,
    result |-> None ]

\* No `dial call` command runs.
NoCli ==
  [ device_id |-> << >>, number |-> << >>, bt_mac |-> None,
    config_bt_mac |-> None, bt_card_name |-> None ]

VARIABLES
  advertised,       \* the profiles the card really has
  active,           \* the card's active profile
  autoswitch,       \* bluetooth.autoswitch-to-headset-profile
  procs,            \* the pw-loopback processes alive
  sessions,         \* the caller's HfpSession values
  op,               \* the public entry point running, or "none"
  pc,               \* its position
  self,             \* drop: the session being dropped
  profiles,         \* switch_to_hfp / switch_to_a2dp: let profiles
  idx,              \* switch_to_a2dp: position in candidates
  codec,            \* activate_hfp: let codec
  mic_loopback,     \* activate_hfp: let mic_loopback
  speaker_loopback, \* activate_hfp: let speaker_loopback
  s,                \* drop: the HfpSessionInner taken out of self.inner
  elapsed,          \* wait_for: time since the wait began, ms
  result,           \* the value the entry point returned
  log,              \* the external commands the entry point has issued
  nops,             \* entry points called so far
  nact,             \* activate_hfp calls so far
  wf,               \* wait_for called alone: its timeout, the times at
                    \* which its condition holds, the times it evaluated it
  disc,             \* discover_blocking: its daemon, browse, clock and events
  cli,              \* the `dial call` command: its arguments and config
  before            \* the autoswitch setting as the caller read it before its
                    \* first call (GuardSpec)

vars == << advertised, active, autoswitch, procs, sessions, op, pc, self,
           profiles, idx, codec, mic_loopback, speaker_loopback, s,
           elapsed, result, log, nops, nact, wf, disc, cli, before >>

world == << advertised, active, autoswitch, procs >>
locals == << profiles, idx, codec, mic_loopback, speaker_loopback, s, elapsed >>

Slots == 1..MaxSessions

\* HfpSession { card_name, codec, inner }
HfpSession(c, in) ==
  [ state |-> "held", drops |-> 0, codec |-> c, inner |-> in, act |-> nact ]

\* ------------------------------------------------------------ log entries

Toggle(v)    == [ cmd |-> "wpctl", arg |-> v, ok |-> TRUE ]
ListCards    == [ cmd |-> "list-cards", arg |-> "", ok |-> TRUE ]
SetCall(p, b) == [ cmd |-> "set-card-profile", arg |-> p, ok |-> b ]
Spawn(n, b)  == [ cmd |-> "spawn", arg |-> n, ok |-> b ]
Kill(n)      == [ cmd |-> "kill", arg |-> n, ok |-> TRUE ]
Wait(n)      == [ cmd |-> "wait", arg |-> n, ok |-> TRUE ]
KillFailed(n) == [ cmd |-> "kill", arg |-> n, ok |-> FALSE ]
WaitFailed(n) == [ cmd |-> "wait", arg |-> n, ok |-> FALSE ]
Sleep        == [ cmd |-> "sleep", arg |-> "200", ok |-> TRUE ]
WaitFor(n, b) == [ cmd |-> "wait_for", arg |-> n, ok |-> b ]
ListSources(st) == [ cmd |-> "list-sources", arg |-> st, ok |-> TRUE ]
ListSinks(st)   == [ cmd |-> "list-sinks", arg |-> st, ok |-> TRUE ]

Init ==
  /\ advertised \in { P \in SUBSET ProfileNames : Cardinality(P) <= MaxProfiles }
  /\ active = "off"
  /\ autoswitch \in BOOLEAN
  /\ procs = {}
  /\ sessions = [ i \in Slots |-> NoSession ]
  /\ op = "none"
  /\ pc = "idle"
  /\ self = 0
  /\ profiles = {}
  /\ idx = 0
  /\ codec = "none"
  /\ mic_loopback = NoChild
  /\ speaker_loopback = NoChild
  /\ s = NoneInner
  /\ elapsed = 0
  /\ result = NoResult
  /\ log = << >>
  /\ nops = 0
  /\ nact = 0
  /\ wf = NoWait
  /\ disc = NoDisc
  /\ cli = NoCli
  /\ before = FALSE


\* ------------------------------------------------------- pure helpers

\* p.starts_with("headset-head-unit"), over ProfileNames.
starts_with_headset(p) == p \in HeadsetProfiles

has_cvsd_explicit(P) == "headset-head-unit-cvsd" \in P
has_headset(P)       == \E p \in P : starts_with_headset(p)

\* (a bug: the gateway profile is looked up under another name)
has_gateway_M(P) == "headset-audio-gateway" \in P

has_gateway(P)       == "audio-gateway" \in P

\* (a bug: the PipeWire naming is forgotten)
msbc_name_M(P) == "headset-head-unit-msbc"

\* let (msbc, cvsd) = if has_cvsd_explicit { PipeWire } else { PulseAudio }
msbc_name(P) ==
  IF has_cvsd_explicit(P) THEN "headset-head-unit" ELSE "headset-head-unit-msbc"

\* (a bug: the PulseAudio naming is forgotten)
cvsd_name_M(P) == "headset-head-unit-cvsd"

cvsd_name(P) ==
  IF has_cvsd_explicit(P) THEN "headset-head-unit-cvsd" ELSE "headset-head-unit"

\* (a bug: the deadline is tested before the condition)
wait_for_M(cond, now, deadline) ==
  IF now >= deadline THEN "Err" ELSE IF cond THEN "Ok" ELSE "sleep"

\* wait_for, one turn of its loop at time `now` after the call:
\*   if condition() { return Ok(()) }
\*   if Instant::now() >= deadline { return Err(..) }
\*   thread::sleep(200 ms)
wait_for(cond, now, deadline) ==
  IF cond THEN "Ok" ELSE IF now >= deadline THEN "Err" ELSE "sleep"

\* has_source / has_sink: the listing contains the node's name.
has_node(st) == st # "absent"

\* source_is_running / sink_is_running: some line that names the node does
\* not contain "SUSPENDED".
node_is_running(st) == st # "absent" /\ st # "SUSPENDED"

\* The exit statuses `pactl set-card-profile card p` can end with: a profile
\* the card does not have is refused; one it has is set, or refused.
SetOutcomes(p) == IF p \in advertised THEN BOOLEAN ELSE { FALSE }

\* What available_profiles can return: the card's profiles, or nothing when
\* pactl fails or does not list the card.
Enumerations == { advertised, {} }

Ok(c) ==
  [ kind |-> "Ok", codec |-> c, err |-> "none", profiles |-> {}, cards |-> << >> ]

\* (a bug: the error does not carry the enumerated profiles)
Err_M(e, P) ==
  [ kind |-> "Err", codec |-> "none", err |-> e, profiles |-> {}, cards |-> << >> ]

Err(e, P) ==
  [ kind |-> "Err", codec |-> "none", err |-> e, profiles |-> P, cards |-> << >> ]

Emit(e) == log' = Append(log, e)

FreeSlots == { i \in DOMAIN sessions : sessions[i].state = "none" }

\* ------------------------------------------------------- entry points

Enter(name, at) ==
  /\ pc = "idle"
  /\ nops < MaxOps
  /\ op' = name
  /\ pc' = at
  /\ nops' = nops + 1
  /\ log' = << >>
  /\ result' = NoResult
  /\ UNCHANGED << world, sessions, locals, wf, disc, cli, before >>

\* pub fn activate_hfp(card_name)
CallActivateHfp ==
  /\ FreeSlots # {}
  /\ Enter("activate_hfp", "act_disable")
  /\ nact' = nact + 1
  /\ self' = 0

\* (a bug: the profile-only switch starts with the policy toggle)
CallSwitchToHfp_M ==
  /\ Enter("switch_to_hfp", "act_disable")
  /\ UNCHANGED << nact, self >>

\* pub fn switch_to_hfp(card_name)
CallSwitchToHfp ==
  /\ Enter("switch_to_hfp", "hfp_enum")
  /\ UNCHANGED << nact, self >>

\* pub fn switch_to_a2dp(card_name)
CallSwitchToA2dp ==
  /\ Enter("switch_to_a2dp", "a2dp_enum")
  /\ UNCHANGED << nact, self >>

\* An HfpSession value is released: by going out of scope, or once more
\* after that.
CallDrop(i) ==
  /\ sessions[i].state \in { "held", "released" }
  /\ Enter("drop", "drop")
  /\ self' = i
  /\ UNCHANGED nact

\* The entry point has returned; the caller goes on.
Return ==
  /\ pc = "returned"
  /\ pc' = "idle"
  /\ op' = "none"
  /\ self' = 0
  /\ profiles' = {}
  /\ idx' = 0
  /\ codec' = "none"
  /\ mic_loopback' = NoChild
  /\ speaker_loopback' = NoChild
  /\ s' = NoneInner
  /\ elapsed' = 0
  /\ result' = NoResult
  /\ log' = << >>
  /\ UNCHANGED << world, sessions, nops, nact, wf, disc, cli, before >>

\* ------------------------------------------------------- switch_to_hfp

\* Where switch_to_hfp returns to.
HfpReturnPc ==
  IF op = "activate_hfp" THEN "act_match"
  ELSE IF op = "dial_call" THEN "dial_switched"
  ELSE "returned"

\* let profiles = available_profiles(card_name);
HfpEnumerate ==
  /\ pc = "hfp_enum"
  /\ \E P \in Enumerations : profiles' = P
  /\ Emit(ListCards)
  /\ pc' = "hfp_msbc"
  /\ UNCHANGED << world, sessions, op, self, idx, codec, mic_loopback,
                  speaker_loopback, s, elapsed, result, nops, nact, wf, disc, cli, before >>

\* if has_headset { if try_set(card_name, msbc) { return Ok(MSbc) } ...
HfpTryMsbc ==
  /\ pc = "hfp_msbc"
  /\ IF has_headset(profiles)
       THEN \E ok \in SetOutcomes(msbc_name(profiles)) :
              /\ Emit(SetCall(msbc_name(profiles), ok))
              /\ active' = IF ok THEN msbc_name(profiles) ELSE active
              /\ result' = IF ok THEN Ok("MSbc") ELSE result
              /\ pc' = IF ok THEN HfpReturnPc ELSE "hfp_cvsd"
       ELSE /\ pc' = "hfp_gateway"
            /\ UNCHANGED << active, result, log >>
  /\ UNCHANGED << advertised, autoswitch, procs, sessions, op, self, locals,
                  nops, nact, wf, disc, cli, before >>

\* (a bug: the narrowband attempt reports the wideband codec)
HfpTryCvsd_M ==
  /\ pc = "hfp_cvsd"
  /\ \E ok \in SetOutcomes(cvsd_name(profiles)) :
       /\ Emit(SetCall(cvsd_name(profiles), ok))
       /\ active' = IF ok THEN cvsd_name(profiles) ELSE active
       /\ result' = IF ok THEN Ok("MSbc") ELSE result
       /\ pc' = IF ok THEN HfpReturnPc ELSE "hfp_gateway"
  /\ UNCHANGED << advertised, autoswitch, procs, sessions, op, self, locals,
                  nops, nact, wf, disc, cli, before >>

\* ... if try_set(card_name, cvsd) { return Ok(Cvsd) } }
HfpTryCvsd ==
  /\ pc = "hfp_cvsd"
  /\ \E ok \in SetOutcomes(cvsd_name(profiles)) :
       /\ Emit(SetCall(cvsd_name(profiles), ok))
       /\ active' = IF ok THEN cvsd_name(profiles) ELSE active
       /\ result' = IF ok THEN Ok("Cvsd") ELSE result
       /\ pc' = IF ok THEN HfpReturnPc ELSE "hfp_gateway"
  /\ UNCHANGED << advertised, autoswitch, procs, sessions, op, self, locals,
                  nops, nact, wf, disc, cli, before >>

\* (a bug: with nothing enumerated the gateway profile is tried all the same)
HfpTryGateway_M ==
  /\ pc = "hfp_gateway"
  /\ IF has_gateway(profiles) \/ profiles = {}
       THEN \E ok \in SetOutcomes("audio-gateway") :
              /\ Emit(SetCall("audio-gateway", ok))
              /\ active' = IF ok THEN "audio-gateway" ELSE active
              /\ result' = IF ok THEN Ok("PhoneGateway")
                                 ELSE Err("NoTelephonyProfile", profiles)
       ELSE /\ result' = Err("NoTelephonyProfile", profiles)
            /\ UNCHANGED << active, log >>
  /\ pc' = HfpReturnPc
  /\ UNCHANGED << advertised, autoswitch, procs, sessions, op, self, locals,
                  nops, nact, wf, disc, cli, before >>

\* if has_gateway { if try_set(card_name, "audio-gateway") { return Ok(..) } }
\* Err(format!("Could not switch ... Available profiles: {profiles:?}"))
HfpTryGateway ==
  /\ pc = "hfp_gateway"
  /\ IF has_gateway(profiles)
       THEN \E ok \in SetOutcomes("audio-gateway") :
              /\ Emit(SetCall("audio-gateway", ok))
              /\ active' = IF ok THEN "audio-gateway" ELSE active
              /\ result' = IF ok THEN Ok("PhoneGateway")
                                 ELSE Err("NoTelephonyProfile", profiles)
       ELSE /\ result' = Err("NoTelephonyProfile", profiles)
            /\ UNCHANGED << active, log >>
  /\ pc' = HfpReturnPc
  /\ UNCHANGED << advertised, autoswitch, procs, sessions, op, self, locals,
                  nops, nact, wf, disc, cli, before >>

\* ------------------------------------------------------- switch_to_a2dp

\* Where switch_to_a2dp returns to.
A2dpReturnPc == IF op = "drop" THEN "td_enable" ELSE "returned"

\* let profiles = available_profiles(card_name);
A2dpEnumerate ==
  /\ pc = "a2dp_enum"
  /\ \E P \in Enumerations : profiles' = P
  /\ idx' = 1
  /\ Emit(ListCards)
  /\ pc' = "a2dp_try"
  /\ UNCHANGED << world, sessions, op, self, codec, mic_loopback,
                  speaker_loopback, s, elapsed, result, nops, nact, wf, disc, cli, before >>

\* (a bug: with nothing enumerated no candidate is tried)
A2dpTry_M ==
  /\ pc = "a2dp_try"
  /\ idx <= Len(A2dpCandidates)
  /\ IF A2dpCandidates[idx] \in profiles
       THEN \E ok \in SetOutcomes(A2dpCandidates[idx]) :
              /\ Emit(SetCall(A2dpCandidates[idx], ok))
              /\ active' = IF ok THEN A2dpCandidates[idx] ELSE active
              /\ result' = IF ok THEN Ok("none") ELSE result
              /\ pc' = IF ok THEN A2dpReturnPc ELSE pc
              /\ idx' = IF ok THEN idx ELSE idx + 1
       ELSE /\ idx' = idx + 1
            /\ UNCHANGED << active, result, log, pc >>
  /\ UNCHANGED << advertised, autoswitch, procs, sessions, op, self, profiles,
                  codec, mic_loopback, speaker_loopback, s, elapsed, nops, nact, wf, disc, cli, before >>

\* for p in &candidates { if profiles.is_empty() || listed { if try_set .. } }
A2dpTry ==
  /\ pc = "a2dp_try"
  /\ idx <= Len(A2dpCandidates)
  /\ IF profiles = {} \/ A2dpCandidates[idx] \in profiles
       THEN \E ok \in SetOutcomes(A2dpCandidates[idx]) :
              /\ Emit(SetCall(A2dpCandidates[idx], ok))
              /\ active' = IF ok THEN A2dpCandidates[idx] ELSE active
              /\ result' = IF ok THEN Ok("none") ELSE result
              /\ pc' = IF ok THEN A2dpReturnPc ELSE pc
              /\ idx' = IF ok THEN idx ELSE idx + 1
       ELSE /\ idx' = idx + 1
            /\ UNCHANGED << active, result, log, pc >>
  /\ UNCHANGED << advertised, autoswitch, procs, sessions, op, self, profiles,
                  codec, mic_loopback, speaker_loopback, s, elapsed, nops, nact, wf, disc, cli, before >>

\* Err(format!("Could not switch {card_name} back to A2DP ..."))
A2dpFail ==
  /\ pc = "a2dp_try"
  /\ idx > Len(A2dpCandidates)
  /\ result' = Err("NoMusicProfile", profiles)
  /\ pc' = A2dpReturnPc
  /\ UNCHANGED << world, sessions, op, self, locals, log, nops, nact, wf, disc, cli, before >>


\* ------------------------------------------------- wpctl policy helpers

\* disable_wp_autoswitch / enable_wp_autoswitch: `let _ = wpctl settings
\* ... <v>`; the setting takes the value unless wpctl fails.
SetAutoswitch(v, arg) ==
  /\ \E ok \in BOOLEAN : autoswitch' = IF ok THEN v ELSE autoswitch
  /\ Emit(Toggle(arg))

\* (a bug: the setting is written "true" where it is to be disabled)
disable_wp_autoswitch_M == SetAutoswitch(TRUE, "true")

disable_wp_autoswitch == SetAutoswitch(FALSE, "false")

enable_wp_autoswitch == SetAutoswitch(TRUE, "true")

\* ------------------------------------------------------- activate_hfp

\* (a bug: a wpctl failure ends the activation with an error)
ActDisableAutoswitch_M ==
  /\ pc = "act_disable"
  /\ Emit(Toggle("false"))
  /\ \E ok \in BOOLEAN :
       IF ok
         THEN autoswitch' = FALSE /\ pc' = "hfp_enum" /\ UNCHANGED result
         ELSE UNCHANGED autoswitch /\ pc' = "returned" /\ result' = Err("wpctl", {})
  /\ UNCHANGED << advertised, active, procs, sessions, op, self, locals,
                  nops, nact, wf, disc, cli, before >>

\* Step 1: disable_wp_autoswitch(); then switch_to_hfp(card_name) is called.
ActDisableAutoswitch ==
  /\ pc = "act_disable"
  /\ disable_wp_autoswitch
  /\ pc' = "hfp_enum"
  /\ UNCHANGED << advertised, active, procs, sessions, op, self, locals,
                  result, nops, nact, wf, disc, cli, before >>

\* Err(e) => { enable_wp_autoswitch(); return Err(e); }
ActSwitchFailed ==
  /\ pc = "act_match"
  /\ result.kind = "Err"
  /\ enable_wp_autoswitch
  /\ pc' = "returned"
  /\ UNCHANGED << advertised, active, procs, sessions, op, self, locals,
                  result, nops, nact, wf, disc, cli, before >>

\* (a bug: the gateway session gets an inner value with no handles)
ActGateway_M ==
  /\ pc = "act_match"
  /\ result.kind = "Ok"
  /\ result.codec = "PhoneGateway"
  /\ enable_wp_autoswitch
  /\ codec' = result.codec
  /\ sessions' = [ sessions EXCEPT ![CHOOSE i \in FreeSlots : \A j \in FreeSlots : i <= j] =
                     HfpSession(result.codec, SomeInner(NoChild, NoChild)) ]
  /\ pc' = "returned"
  /\ UNCHANGED << advertised, active, procs, op, self, profiles, idx,
                  mic_loopback, speaker_loopback, s, elapsed, result, nops, nact, wf, disc, cli, before >>

\* if codec == PhoneGateway { enable_wp_autoswitch();
\*   return Ok(HfpSession { card_name, codec, inner: None }) }
ActGateway ==
  /\ pc = "act_match"
  /\ result.kind = "Ok"
  /\ result.codec = "PhoneGateway"
  /\ enable_wp_autoswitch
  /\ codec' = result.codec
  /\ sessions' = [ sessions EXCEPT ![CHOOSE i \in FreeSlots : \A j \in FreeSlots : i <= j] =
                     HfpSession(result.codec, NoneInner) ]
  /\ pc' = "returned"
  /\ UNCHANGED << advertised, active, procs, op, self, profiles, idx,
                  mic_loopback, speaker_loopback, s, elapsed, result, nops, nact, wf, disc, cli, before >>

\* (a bug: the bridges are spawned without waiting for the nodes)
ActDeriveNodes_M ==
  /\ pc = "act_match"
  /\ result.kind = "Ok"
  /\ result.codec # "PhoneGateway"
  /\ codec' = result.codec
  /\ elapsed' = 0
  /\ result' = NoResult
  /\ pc' = "act_spawn_mic"
  /\ UNCHANGED << world, sessions, op, self, profiles, idx, mic_loopback,
                  speaker_loopback, s, log, nops, nact, wf, disc, cli, before >>

\* Ok(c) => c, not the gateway: the node names are derived and the wait for
\* the nodes begins (let deadline = Instant::now() + timeout).
ActDeriveNodes ==
  /\ pc = "act_match"
  /\ result.kind = "Ok"
  /\ result.codec # "PhoneGateway"
  /\ codec' = result.codec
  /\ elapsed' = 0
  /\ result' = NoResult
  /\ pc' = "act_wait_nodes"
  /\ UNCHANGED << world, sessions, op, self, profiles, idx, mic_loopback,
                  speaker_loopback, s, log, nops, nact, wf, disc, cli, before >>

\* (a bug: the timeout of the node wait is not fatal)
ActWaitNodes_M ==
  /\ pc = "act_wait_nodes"
  /\ \E src \in NodeStates, snk \in NodeStates :
       LET r == wait_for(has_node(src) /\ has_node(snk), elapsed, TimeoutMs) IN
       IF r = "sleep"
         THEN /\ elapsed' = elapsed + PollMs
              /\ UNCHANGED << pc, log >>
         ELSE /\ pc' = "act_spawn_mic"
              /\ Emit(WaitFor("nodes", r = "Ok"))
              /\ elapsed' = 0
  /\ UNCHANGED << world, sessions, op, self, profiles, idx, codec, result,
                  mic_loopback, speaker_loopback, s, nops, nact, wf, disc, cli, before >>

\* wait_for(|| has_source(&bt_source) && has_sink(&bt_sink), 4 s, ..)?
\* One evaluation of the condition, then the deadline test, then the sleep.
ActWaitNodes ==
  /\ pc = "act_wait_nodes"
  /\ \E src \in NodeStates, snk \in NodeStates :
       LET r == wait_for(has_node(src) /\ has_node(snk), elapsed, TimeoutMs) IN
       IF r = "Ok"
         THEN /\ pc' = "act_spawn_mic"
              /\ Emit(WaitFor("nodes", TRUE))
              /\ elapsed' = 0
              /\ UNCHANGED result
         ELSE IF r = "Err"
           THEN /\ pc' = "returned"
                /\ result' = Err("NodeTimeout", {})
                /\ Emit(WaitFor("nodes", FALSE))
                /\ elapsed' = 0
           ELSE /\ elapsed' = elapsed + PollMs
                /\ UNCHANGED << pc, result, log >>
  /\ UNCHANGED << world, sessions, op, self, profiles, idx, codec,
                  mic_loopback, speaker_loopback, s, nops, nact, wf, disc, cli, before >>

\* (a bug: after a failed mic spawn the nodes are waited for once more and
\* the spawn is tried again)
ActSpawnMic_M ==
  /\ pc = "act_spawn_mic"
  /\ \E ok \in BOOLEAN :
       IF ok
         THEN /\ Emit(Spawn("mic", ok))
              /\ mic_loopback' = [ name |-> "mic", act |-> nact ]
              /\ procs' = procs \cup { [ name |-> "mic", act |-> nact ] }
              /\ pc' = "act_spawn_speaker"
              /\ UNCHANGED result
         ELSE /\ log' = SubSeq(log, 1, Len(log) - 1)
              /\ pc' = "act_wait_nodes"
              /\ UNCHANGED << mic_loopback, procs, result >>
  /\ UNCHANGED << advertised, active, autoswitch, sessions, op, self, profiles,
                  idx, codec, speaker_loopback, s, elapsed, nops, nact, wf, disc, cli, before >>

\* let mic_loopback = Command::new("pw-loopback")...spawn()
\*     .map_err(|e| format!("Failed to start mic-loopback: {e}"))?;
ActSpawnMic ==
  /\ pc = "act_spawn_mic"
  /\ \E ok \in BOOLEAN :
       /\ Emit(Spawn("mic", ok))
       /\ IF ok
            THEN /\ mic_loopback' = [ name |-> "mic", act |-> nact ]
                 /\ procs' = procs \cup { [ name |-> "mic", act |-> nact ] }
                 /\ pc' = "act_spawn_speaker"
                 /\ UNCHANGED result
            ELSE /\ result' = Err("mic-loopback", {})
                 /\ pc' = "returned"
                 /\ UNCHANGED << mic_loopback, procs >>
  /\ UNCHANGED << advertised, active, autoswitch, sessions, op, self, profiles,
                  idx, codec, speaker_loopback, s, elapsed, nops, nact, wf, disc, cli, before >>

\* (a bug: a failed speaker spawn switches the card's profile off)
ActSpawnSpeaker_M ==
  /\ pc = "act_spawn_speaker"
  /\ \E ok \in BOOLEAN :
       IF ok
         THEN /\ Emit(Spawn("speaker", ok))
              /\ speaker_loopback' = [ name |-> "speaker", act |-> nact ]
              /\ procs' = procs \cup { [ name |-> "speaker", act |-> nact ] }
              /\ elapsed' = 0
              /\ pc' = "act_wait_running"
              /\ UNCHANGED << result, active >>
         ELSE /\ log' = log \o << Spawn("speaker", FALSE), SetCall("off", TRUE) >>
              /\ active' = "off"
              /\ result' = Err("speaker-loopback", {})
              /\ pc' = "returned"
              /\ UNCHANGED << speaker_loopback, procs, elapsed >>
  /\ UNCHANGED << advertised, autoswitch, sessions, op, self, profiles,
                  idx, codec, mic_loopback, s, nops, nact, wf, disc, cli, before >>

\* let speaker_loopback = Command::new("pw-loopback")...spawn()
\*     .map_err(|e| format!("Failed to start speaker-loopback: {e}"))?;
\* On failure `?` returns; the local mic_loopback (a std::process::Child) goes
\* out of scope, which neither kills nor waits for the process.
ActSpawnSpeaker ==
  /\ pc = "act_spawn_speaker"
  /\ \E ok \in BOOLEAN :
       /\ Emit(Spawn("speaker", ok))
       /\ IF ok
            THEN /\ speaker_loopback' = [ name |-> "speaker", act |-> nact ]
                 /\ procs' = procs \cup { [ name |-> "speaker", act |-> nact ] }
                 /\ elapsed' = 0
                 /\ pc' = "act_wait_running"
                 /\ UNCHANGED result
            ELSE /\ result' = Err("speaker-loopback", {})
                 /\ pc' = "returned"
                 /\ UNCHANGED << speaker_loopback, procs, elapsed >>
  /\ UNCHANGED << advertised, active, autoswitch, sessions, op, self, profiles,
                  idx, codec, mic_loopback, s, nops, nact, wf, disc, cli, before >>

\* source_is_running(..) && sink_is_running(..): the listings the evaluation
\* that ends the wait has read, with the state each shows for the card's
\* node; the sinks are not listed when the source is not taken as running.
Listed(src, snk) ==
  IF node_is_running(src)
    THEN << ListSources(src), ListSinks(snk) >>
    ELSE << ListSources(src) >>

\* (a bug: the timeout of the running wait fails the activation)
ActWaitRunning_M ==
  /\ pc = "act_wait_running"
  /\ \E src \in NodeStates, snk \in NodeStates :
       LET r == wait_for(node_is_running(src) /\ node_is_running(snk),
                         elapsed, TimeoutMs) IN
       IF r = "sleep"
         THEN /\ elapsed' = elapsed + PollMs
              /\ UNCHANGED << pc, result, log, sessions >>
         ELSE /\ Emit(WaitFor("running", r = "Ok"))
              /\ IF r = "Ok"
                   THEN /\ sessions' = [ sessions EXCEPT
                             ![CHOOSE i \in FreeSlots : \A j \in FreeSlots : i <= j] =
                                HfpSession(codec, SomeInner(mic_loopback, speaker_loopback)) ]
                        /\ result' = Ok(codec)
                   ELSE /\ result' = Err("RunningTimeout", {})
                        /\ UNCHANGED sessions
              /\ pc' = "returned"
              /\ elapsed' = 0
  /\ UNCHANGED << world, op, self, profiles, idx, codec, mic_loopback,
                  speaker_loopback, s, nops, nact, wf, disc, cli, before >>

\* let both_running = wait_for(|| source_is_running(..) && sink_is_running(..),
\*                             4 s, "").is_ok();
\* Ok(HfpSession { card_name, codec, inner: Some(HfpSessionInner { .. }) })
ActWaitRunning ==
  /\ pc = "act_wait_running"
  /\ \E src \in NodeStates, snk \in NodeStates :
       LET r == wait_for(node_is_running(src) /\ node_is_running(snk),
                         elapsed, TimeoutMs) IN
       IF r = "sleep"
         THEN /\ elapsed' = elapsed + PollMs
              /\ UNCHANGED << pc, result, log, sessions >>
         ELSE /\ log' = log \o Listed(src, snk) \o << WaitFor("running", r = "Ok") >>
              /\ sessions' = [ sessions EXCEPT
                     ![CHOOSE i \in FreeSlots : \A j \in FreeSlots : i <= j] =
                        HfpSession(codec, SomeInner(mic_loopback, speaker_loopback)) ]
              /\ result' = Ok(codec)
              /\ pc' = "returned"
              /\ elapsed' = 0
  /\ UNCHANGED << world, op, self, profiles, idx, codec, mic_loopback,
                  speaker_loopback, s, nops, nact, wf, disc, cli, before >>

\* ------------------------------------------------- Drop for HfpSession

\* (a bug: the inner value is borrowed, not taken)
take_M(inner) == inner

\* Option::take: what self.inner holds afterwards.
take(inner) == NoneInner

\* if let Some(mut s) = self.inner.take() { s.teardown(&self.card_name); }
Drop ==
  /\ pc = "drop"
  /\ IF sessions[self].inner.some
       THEN /\ s' = sessions[self].inner
            /\ pc' = "td_kill_mic"
            /\ UNCHANGED result
       ELSE /\ s' = s
            /\ pc' = "returned"
            /\ result' = Ok("none")
  /\ sessions' = [ sessions EXCEPT ![self] =
                     [ @ EXCEPT !.state = "released", !.drops = @ + 1,
                                !.inner = take(@) ] ]
  /\ UNCHANGED << world, op, self, profiles, idx, codec, mic_loopback,
                  speaker_loopback, elapsed, log, nops, nact, wf, disc, cli, before >>

\* fn kill_child(child: &mut Option<Child>):
\*   if let Some(mut c) = child.take() { let _ = c.kill(); let _ = c.wait(); }
\* The results of kill and wait are dropped.  On a process that is alive
\* both succeed; on one that has exited already each succeeds or fails.
kill_child(c, n) ==
  IF c = NoChild
    THEN UNCHANGED << procs, log >>
    ELSE IF c \in procs
      THEN /\ procs' = procs \ { c }
           /\ log' = log \o << Kill(n), Wait(n) >>
      ELSE /\ \E k \in BOOLEAN, w \in BOOLEAN :
                log' = log \o << IF k THEN Kill(n) ELSE KillFailed(n),
                                 IF w THEN Wait(n) ELSE WaitFailed(n) >>
           /\ UNCHANGED procs

\* (a bug: a failed kill or wait of the mic bridge ends teardown)
TdKillMic_M ==
  /\ pc = "td_kill_mic"
  /\ kill_child(s.mic_loopback, "mic")
  /\ IF \E i \in DOMAIN log' : log'[i].cmd \in { "kill", "wait" } /\ ~log'[i].ok
       THEN pc' = "returned" /\ result' = Err("kill", {}) /\ s' = s
       ELSE /\ pc' = "td_kill_speaker"
            /\ s' = [ s EXCEPT !.mic_loopback = NoChild ]
            /\ UNCHANGED result
  /\ UNCHANGED << advertised, active, autoswitch, sessions, op, self, profiles,
                  idx, codec, mic_loopback, speaker_loopback, elapsed,
                  nops, nact, wf, disc, cli, before >>

\* kill_child(&mut self.mic_loopback)
TdKillMic ==
  /\ pc = "td_kill_mic"
  /\ kill_child(s.mic_loopback, "mic")
  /\ s' = [ s EXCEPT !.mic_loopback = NoChild ]
  /\ pc' = "td_kill_speaker"
  /\ UNCHANGED << advertised, active, autoswitch, sessions, op, self, profiles,
                  idx, codec, mic_loopback, speaker_loopback, elapsed, result,
                  nops, nact, wf, disc, cli, before >>

\* (a bug: the speaker handle is dropped without kill; the process lives on)
TdKillSpeaker_M ==
  /\ pc = "td_kill_speaker"
  /\ s' = [ s EXCEPT !.speaker_loopback = NoChild ]
  /\ pc' = "td_sleep"
  /\ UNCHANGED << advertised, active, autoswitch, procs, sessions, op, self,
                  profiles, idx, codec, mic_loopback, speaker_loopback,
                  elapsed, result, log, nops, nact, wf, disc, cli, before >>

\* kill_child(&mut self.speaker_loopback)
TdKillSpeaker ==
  /\ pc = "td_kill_speaker"
  /\ kill_child(s.speaker_loopback, "speaker")
  /\ s' = [ s EXCEPT !.speaker_loopback = NoChild ]
  /\ pc' = "td_sleep"
  /\ UNCHANGED << advertised, active, autoswitch, sessions, op, self, profiles,
                  idx, codec, mic_loopback, speaker_loopback, elapsed, result,
                  nops, nact, wf, disc, cli, before >>

\* (a bug: no settle delay before the profile change)
TdSleep_M ==
  /\ pc = "td_sleep"
  /\ pc' = "a2dp_enum"
  /\ UNCHANGED << world, sessions, op, self, locals, result, log, nops, nact, wf, disc, cli, before >>

\* thread::sleep(Duration::from_millis(200)); then switch_to_a2dp is called.
TdSleep ==
  /\ pc = "td_sleep"
  /\ Emit(Sleep)
  /\ pc' = "a2dp_enum"
  /\ UNCHANGED << world, sessions, op, self, locals, result, nops, nact, wf, disc, cli, before >>

\* (a bug: the error of switch_to_a2dp is passed on and ends teardown)
TdEnable_M ==
  /\ pc = "td_enable"
  /\ IF result.kind = "Err"
       THEN UNCHANGED << autoswitch, log, result >>
       ELSE enable_wp_autoswitch /\ result' = Ok("none")
  /\ pc' = "returned"
  /\ UNCHANGED << advertised, active, procs, sessions, op, self, locals,
                  nops, nact, wf, disc, cli, before >>

\* let _ = switch_to_a2dp(card_name); enable_wp_autoswitch();
TdEnable ==
  /\ pc = "td_enable"
  /\ enable_wp_autoswitch
  /\ result' = Ok("none")
  /\ pc' = "returned"
  /\ UNCHANGED << advertised, active, procs, sessions, op, self, locals,
                  nops, nact, wf, disc, cli, before >>

\* ---------------------------------------------------------------- Spec

Next ==
  \/ CallActivateHfp
  \/ CallSwitchToHfp
  \/ CallSwitchToA2dp
  \/ \E i \in DOMAIN sessions : CallDrop(i)
  \/ Return
  \/ HfpEnumerate
  \/ HfpTryMsbc
  \/ HfpTryCvsd
  \/ HfpTryGateway
  \/ A2dpEnumerate
  \/ A2dpTry
  \/ A2dpFail
  \/ ActDisableAutoswitch
  \/ ActSwitchFailed
  \/ ActGateway
  \/ ActDeriveNodes
  \/ ActWaitNodes
  \/ ActSpawnMic
  \/ ActSpawnSpeaker
  \/ ActWaitRunning
  \/ Drop
  \/ TdKillMic
  \/ TdKillSpeaker
  \/ TdSleep
  \/ TdEnable

Spec == Init /\ [][Next]_vars

\* The steps of a call that has been entered: everything but the caller's
\* decision to call an entry point.
Run ==
  \/ Return
  \/ HfpEnumerate
  \/ HfpTryMsbc
  \/ HfpTryCvsd
  \/ HfpTryGateway
  \/ A2dpEnumerate
  \/ A2dpTry
  \/ A2dpFail
  \/ ActDisableAutoswitch
  \/ ActSwitchFailed
  \/ ActGateway
  \/ ActDeriveNodes
  \/ ActWaitNodes
  \/ ActSpawnMic
  \/ ActSpawnSpeaker
  \/ ActWaitRunning
  \/ Drop
  \/ TdKillMic
  \/ TdKillSpeaker
  \/ TdSleep
  \/ TdEnable


\* ------------------------------------------- bridges that exit early
\*
\* Spec takes a pw-loopback process to run until it is killed.  Here a
\* bridge that a handle refers to may exit on its own, which is when
\* kill_child finds it gone; the caller activates and releases sessions.
\* The exits are taken between two calls: nothing but kill_child looks at a
\* bridge, so one that exits during a call is found no differently from one
\* that exited before it.

\* The handles in use: of the activation under way, of the sessions, and of
\* the teardown under way.
Handles ==
  { mic_loopback, speaker_loopback, s.mic_loopback, s.speaker_loopback }
    \cup { sessions[i].inner.mic_loopback : i \in DOMAIN sessions }
    \cup { sessions[i].inner.speaker_loopback : i \in DOMAIN sessions }

BridgeExit ==
  /\ pc = "idle"
  /\ \E p \in procs \cap Handles : procs' = procs \ { p }
  /\ UNCHANGED << advertised, active, autoswitch, sessions, op, pc, self,
                  locals, result, log, nops, nact, wf, disc, cli, before >>

ExitNext ==
  \/ CallActivateHfp
  \/ \E i \in DOMAIN sessions : CallDrop(i)
  \/ Run
  \/ BridgeExit

ExitSpec == Init /\ [][ExitNext]_vars

\* ------------------------------------------------ wait_for on its own
\*
\* wait_for run against a clock: `elapsed` is the time in ms since the call
\* (the deadline is Instant::now() + timeout, so it is wf.timeout on this
\* clock), an evaluation of the condition takes no time and a sleep takes
\* the 200 ms it asks for.  The condition is true on [wf.from, wf.until).

NeverMs == 3 * TimeoutMs

WaitTimeouts == { 0, 300, 1000, TimeoutMs }

WaitFroms == { 100 * k : k \in 0..44 } \cup { NeverMs }

condition(t) == wf.from <= t /\ t < wf.until

WaitInit ==
  /\ advertised = {}
  /\ active = "off"
  /\ autoswitch = TRUE
  /\ procs = {}
  /\ sessions = [ i \in Slots |-> NoSession ]
  /\ op = "wait_for"
  /\ pc = "wf_loop"
  /\ self = 0
  /\ profiles = {}
  /\ idx = 0
  /\ codec = "none"
  /\ mic_loopback = NoChild
  /\ speaker_loopback = NoChild
  /\ s = NoneInner
  /\ elapsed = 0
  /\ result = NoResult
  /\ log = << >>
  /\ nops = 0
  /\ nact = 0
  /\ \E t \in WaitTimeouts, f \in WaitFroms :
       \E u \in { f + 100, NeverMs } :
         wf = [ timeout |-> t, from |-> f, until |-> u, evals |-> << >> ]
  /\ disc = NoDisc
  /\ cli = NoCli
  /\ before = FALSE

\* loop { if condition() { return Ok(()) }
\*        if Instant::now() >= deadline { return Err(anyhow!(..)) }
WfLoop ==
  /\ pc = "wf_loop"
  /\ wf' = [ wf EXCEPT !.evals = Append(@, elapsed) ]
  /\ LET r == wait_for(condition(elapsed), elapsed, wf.timeout) IN
       IF r = "Ok"
         THEN pc' = "returned" /\ result' = Ok("none")
         ELSE IF r = "Err"
           THEN pc' = "returned" /\ result' = Err("Timeout", {})
           ELSE pc' = "wf_sleep" /\ UNCHANGED result
  /\ UNCHANGED << world, sessions, op, self, locals, log, nops, nact,
                  disc, cli, before >>

\* (a bug: the poll interval is slept three times over)
WfSleep_M ==
  /\ pc = "wf_sleep"
  /\ elapsed' = elapsed + 3 * PollMs
  /\ pc' = "wf_loop"
  /\ UNCHANGED << world, sessions, op, self, profiles, idx, codec,
                  mic_loopback, speaker_loopback, s, result, log, nops, nact, wf, disc, cli, before >>

\*        thread::sleep(Duration::from_millis(200)); }
WfSleep ==
  /\ pc = "wf_sleep"
  /\ elapsed' = elapsed + PollMs
  /\ pc' = "wf_loop"
  /\ UNCHANGED << world, sessions, op, self, profiles, idx, codec,
                  mic_loopback, speaker_loopback, s, result, log, nops, nact, wf, disc, cli, before >>

WaitNext == WfLoop \/ WfSleep

WaitSpec == WaitInit /\ [][WaitNext]_vars


\* ---------------------------------------------------- non-Linux build
\*
\* #[cfg(not(target_os = "linux"))] mod inner: the four entry points of the
\* build for another platform.  Each is one expression, so the call runs in
\* one step from "idle" to "returned".

StubCall(name, r) ==
  /\ pc = "idle"
  /\ nops < MaxOps
  /\ op' = name
  /\ pc' = "returned"
  /\ result' = r
  /\ log' = << >>
  /\ nops' = nops + 1
  /\ UNCHANGED << world, sessions, self, locals, nact, wf, disc, cli, before >>

\* (a bug: the listing fails where it is to be empty)
StubListBtCards_M == StubCall("list_bt_cards", Err("PlatformUnsupported", {}))

\* pub fn list_bt_cards() -> Vec<BtCard> { vec![] }
StubListBtCards == StubCall("list_bt_cards", Ok("none"))

\* pub fn activate_hfp(_card_name) -> Result<HfpSession, String> { Err(..) }
StubActivateHfp == StubCall("activate_hfp", Err("PlatformUnsupported", {}))

\* pub fn switch_to_hfp(_card_name) -> Result<HfpCodec, String> { Err(..) }
StubSwitchToHfp == StubCall("switch_to_hfp", Err("PlatformUnsupported", {}))

\* pub fn switch_to_a2dp(_card_name) -> Result<(), String> { Err(..) }
StubSwitchToA2dp == StubCall("switch_to_a2dp", Err("PlatformUnsupported", {}))

StubNext ==
  \/ StubListBtCards
  \/ StubActivateHfp
  \/ StubSwitchToHfp
  \/ StubSwitchToA2dp
  \/ Return

StubSpec == Init /\ [][StubNext]_vars


\* ============================================================== claims

Returned(name) == pc = "returned" /\ op = name

ActivateFailed == Returned("activate_hfp") /\ result.kind = "Err"

\* switch_to_hfp has returned, to its public caller or to activate_hfp.
HfpReturned ==
  \/ Returned("switch_to_hfp")
  \/ op = "activate_hfp" /\ pc = "act_match"

Issued(e) == \E i \in DOMAIN log : log[i] = e

\* The commands of a sequence of log entries, without their outcomes.
Calls(q) == [ i \in DOMAIN q |-> << q[i].cmd, q[i].arg >> ]

SetCalls == { i \in DOMAIN log : log[i].cmd = "set-card-profile" }

\* A set-card-profile call to a telephony profile has succeeded.
SwitchedToTelephony ==
  \E i \in SetCalls : log[i].ok /\ log[i].arg \in HeadsetProfiles \cup { "audio-gateway" }

\* pactl refused to set a profile the card advertises.
RefusedAdvertised ==
  \E i \in SetCalls : ~log[i].ok /\ log[i].arg \in advertised

\* The names of the two naming families, as the documentation gives them.
WidebandName(P) ==
  IF "headset-head-unit-cvsd" \in P THEN "headset-head-unit" ELSE "headset-head-unit-msbc"

NarrowbandName(P) ==
  IF "headset-head-unit-cvsd" \in P THEN "headset-head-unit-cvsd" ELSE "headset-head-unit"

\* C1: when activate_hfp returns an error, no bridge process that this call
\* started is still running (a spawn failure of the speaker-loopback leaves
\* the mic-loopback killed).
C1_NoBridgeLeftOnError ==
  ActivateFailed => \A p \in procs : p.act # nact

\* C2: every activate_hfp call that returns an error has issued the
\* re-enabling of the autoswitch policy before returning.
C2_ErrorResumesGuard ==
  ActivateFailed => Issued(Toggle("true"))

\* C3: after a session returned by activate_hfp is dropped, the card's active
\* profile is an A2DP profile, for every codec, provided the card advertises
\* an A2DP profile and pactl refuses no advertised profile.
C3_ReleaseRestoresMusic ==
  ( /\ Returned("drop")
    /\ sessions[self].drops = 1
    /\ advertised \cap A2dpProfiles # {}
    /\ ~RefusedAdvertised )
  => active \in A2dpProfiles

\* C4: when activate_hfp fails after its switch to a telephony profile
\* succeeded, a switch back to a music profile has been attempted before the
\* error is returned and the card is not left in the telephony profile.
C4_FailedActivationRollsBack ==
  ( ActivateFailed /\ SwitchedToTelephony /\ advertised \cap A2dpProfiles # {}
    /\ ~RefusedAdvertised )
  => /\ \E i \in SetCalls : log[i].arg \in A2dpProfiles
     /\ active \in A2dpProfiles

\* C5: a second release of a released session issues no external command
\* and completes without error: its drop goes straight to its end.
C5_ReleaseIdempotent ==
  ( op = "drop" /\ pc # "drop" /\ sessions[self].drops >= 2 )
  => /\ pc = "returned"
     /\ log = << >>
     /\ result = Ok("none")

C5_Witness ==
  /\ Returned("drop")
  /\ sessions[self].drops = 2
  /\ sessions[self].codec \in { "MSbc", "Cvsd" }
  /\ active \in HeadsetProfiles

\* C6: a session's two bridge handles are both present or both absent, and
\* absent exactly when its codec is PhoneGateway or it has been released.
C6_HandlesBothOrNone ==
  \A i \in Slots :
    sessions[i].state # "none" =>
      LET in      == sessions[i].inner
          present == in.some /\ in.mic_loopback # NoChild /\ in.speaker_loopback # NoChild
          absent  == in.mic_loopback = NoChild /\ in.speaker_loopback = NoChild
      IN  /\ present \/ absent
          /\ absent <=> ( sessions[i].codec = "PhoneGateway" \/ sessions[i].drops >= 1 )

C6_Witness ==
  \E i \in Slots :
    /\ sessions[i].state = "held"
    /\ sessions[i].codec = "Cvsd"
    /\ sessions[i].inner.mic_loopback \in procs
    /\ sessions[i].inner.speaker_loopback \in procs

\* C7: in activate_hfp the disabling of the autoswitch policy is issued
\* before the first set-card-profile call.
C7_SuspendBeforeSwitch ==
  op = "activate_hfp" =>
    \A i \in SetCalls : \E j \in 1..(i - 1) : log[j] = Toggle("false")

C7_Witness ==
  /\ op = "activate_hfp"
  /\ \E i \in SetCalls : log[i].ok

\* C8: the release of a session that holds bridges issues, in this order:
\* kill and wait mic-loopback, kill and wait speaker-loopback, the settle
\* delay, the switch to a music profile (enumeration, then set calls to A2DP
\* names only), and last the re-enabling of the autoswitch policy.
C8_ReleaseOrder ==
  ( /\ Returned("drop")
    /\ sessions[self].drops = 1
    /\ sessions[self].codec # "PhoneGateway" )
  => /\ Len(log) >= 7
     /\ SubSeq(log, 1, 6) = << Kill("mic"), Wait("mic"), Kill("speaker"),
                               Wait("speaker"), Sleep, ListCards >>
     /\ \A i \in 7..(Len(log) - 1) :
          log[i].cmd = "set-card-profile" /\ log[i].arg \in A2dpProfiles
     /\ log[Len(log)] = Toggle("true")

C8_Witness ==
  /\ Returned("drop")
  /\ sessions[self].drops = 1
  /\ sessions[self].codec = "MSbc"
  /\ Len(log) >= 9
  /\ active = "a2dp-sink-sbc"

\* C9 as stated: for every card whose advertised (enumerated) profiles
\* include the wideband name of its family, switch_to_hfp returns MSbc and
\* the active profile is that name.
C9_WidebandAdvertised ==
  ( HfpReturned /\ WidebandName(profiles) \in profiles )
  => /\ result = Ok("MSbc")
     /\ active = WidebandName(profiles)

\* C9 amended: when the enumerated profiles include the wideband name of the
\* family and pactl does not refuse to set it, switch_to_hfp returns MSbc and
\* the active profile is that name.
C9_WidebandSet ==
  ( /\ HfpReturned
    /\ WidebandName(profiles) \in profiles
    /\ ~Issued(SetCall(WidebandName(profiles), FALSE)) )
  => /\ result = Ok("MSbc")
     /\ active = WidebandName(profiles)

C9_Witness ==
  /\ Returned("switch_to_hfp")
  /\ "headset-head-unit-cvsd" \in profiles
  /\ result = Ok("MSbc")
  /\ active = "headset-head-unit"

\* C10 as stated: for every card whose advertised (enumerated) profiles
\* include the narrowband name of its family and not the wideband one, switch_to_hfp returns Cvsd and the active
\* profile is the narrowband name.
C10_NarrowbandAdvertised ==
  ( /\ HfpReturned
    /\ NarrowbandName(profiles) \in profiles
    /\ WidebandName(profiles) \notin profiles )
  => /\ result = Ok("Cvsd")
     /\ active = NarrowbandName(profiles)

\* C10 amended: when the enumerated profiles include the narrowband name of
\* the family and not the wideband one, and pactl does not refuse to set the
\* narrowband name, switch_to_hfp returns Cvsd and the active profile is the
\* narrowband name.
C10_NarrowbandSet ==
  ( /\ HfpReturned
    /\ NarrowbandName(profiles) \in profiles
    /\ WidebandName(profiles) \notin profiles
    /\ ~Issued(SetCall(NarrowbandName(profiles), FALSE)) )
  => /\ result = Ok("Cvsd")
     /\ active = NarrowbandName(profiles)

C10_Witness ==
  /\ Returned("switch_to_hfp")
  /\ profiles = { "headset-head-unit", "a2dp-sink" }
  /\ Issued(SetCall("headset-head-unit-msbc", FALSE))
  /\ result = Ok("Cvsd")
  /\ active = "headset-head-unit"

\* The only telephony profile among P is the audio-gateway one.
GatewayOnly(P) == "audio-gateway" \in P /\ P \cap HeadsetProfiles = {}

\* The session the running activate_hfp call has built.
Built(i) == sessions[i].state = "held" /\ sessions[i].act = nact

WaitsOrSpawns == \E i \in DOMAIN log : log[i].cmd \in { "wait_for", "spawn" }

\* C11 as stated: for a card advertising only the audio-gateway telephony
\* profile, switch_to_hfp returns PhoneGateway, and activate_hfp for it waits
\* for no node, spawns no bridge and returns a session without handles.
C11_GatewayOnlyCard ==
  /\ ( HfpReturned /\ GatewayOnly(profiles) ) => result = Ok("PhoneGateway")
  /\ ( Returned("activate_hfp") /\ GatewayOnly(profiles) )
       => /\ ~WaitsOrSpawns
          /\ \E i \in Slots : Built(i) /\ sessions[i].inner = NoneInner

\* C11 amended: for a card whose enumerated profiles hold audio-gateway and no
\* headset profile, and for which the set call for audio-gateway succeeds,
\* switch_to_hfp returns PhoneGateway with audio-gateway active, and
\* activate_hfp returns a session without bridge handles; with or without
\* that success, activate_hfp for such a card waits for no node and spawns no
\* bridge process.
C11_GatewaySet ==
  /\ ( HfpReturned /\ GatewayOnly(profiles)
       /\ ~Issued(SetCall("audio-gateway", FALSE)) )
       => result = Ok("PhoneGateway") /\ active = "audio-gateway"
  /\ ( Returned("activate_hfp") /\ GatewayOnly(profiles)
       /\ ~Issued(SetCall("audio-gateway", FALSE)) )
       => /\ result = Ok("PhoneGateway")
          /\ \E i \in Slots : Built(i) /\ sessions[i].inner = NoneInner
                                       /\ sessions[i].codec = "PhoneGateway"
  /\ ( op = "activate_hfp" /\ advertised \cap HeadsetProfiles = {} )
       => ~WaitsOrSpawns

C11_Witness ==
  /\ Returned("activate_hfp")
  /\ profiles = { "audio-gateway", "a2dp-sink" }
  /\ result = Ok("PhoneGateway")
  /\ procs = {}
  /\ \E i \in Slots : Built(i) /\ sessions[i].inner = NoneInner

C13_SessionOnlyWhenActive ==
  /\ ( Returned("activate_hfp") /\ (\E i \in Slots : Built(i)) )
       => /\ result.kind = "Ok"
          /\ SwitchedToTelephony
          /\ result.codec # "PhoneGateway"
               => /\ Issued(WaitFor("nodes", TRUE))
                  /\ Issued(Spawn("mic", TRUE))
                  /\ Issued(Spawn("speaker", TRUE))
  /\ ( Returned("activate_hfp") /\ result.kind = "Ok" ) => \E i \in Slots : Built(i)
  /\ ( op = "activate_hfp" /\ Issued(WaitFor("nodes", FALSE)) )
       => /\ pc = "returned"
          /\ result.kind = "Err"
          /\ \A i \in DOMAIN log : log[i].cmd # "spawn"
          /\ \A p \in procs : p.act # nact
          /\ \A i \in Slots : ~Built(i)

\* An activation whose node wait timed out has returned.
C13_Witness ==
  /\ Returned("activate_hfp")
  /\ Issued(WaitFor("nodes", FALSE))
  /\ SwitchedToTelephony

\* ---------------------------------------------------------------- C14

BothSpawned == Issued(Spawn("mic", TRUE)) /\ Issued(Spawn("speaker", TRUE))

\* C14: once both bridges were spawned, activate_hfp returns Ok with a
\* session holding both bridge handles, whether the running wait succeeded or
\* timed out; the timeout is no error and neither bridge is killed.
C14_RunningWaitBestEffort ==
  ( Returned("activate_hfp") /\ BothSpawned )
    => /\ result.kind = "Ok"
       /\ \E i \in Slots :
            /\ Built(i)
            /\ sessions[i].inner = SomeInner([ name |-> "mic", act |-> nact ],
                                             [ name |-> "speaker", act |-> nact ])
       /\ { [ name |-> "mic", act |-> nact ],
            [ name |-> "speaker", act |-> nact ] } \subseteq procs
       /\ \A i \in DOMAIN log : log[i].cmd # "kill"

\* An activation whose running wait timed out has returned.
C14_Witness ==
  /\ Returned("activate_hfp")
  /\ BothSpawned
  /\ Issued(WaitFor("running", FALSE))

\* ---------------------------------------------------------------- C15

\* The drop of session i is between taking the handles and the second kill.
Killing(i) == op = "drop" /\ self = i /\ pc \in { "td_kill_mic", "td_kill_speaker" }

\* C15: when a session that holds bridges is dropped, both bridge processes
\* are killed and waited on and both handles are cleared: a released session
\* holds no handle and, once its two kill steps are done, no bridge process
\* of its activation is alive.
C15_ReleaseKillsBridges ==
  /\ \A i \in Slots :
       sessions[i].state = "released"
         => /\ sessions[i].inner = NoneInner
            /\ ~Killing(i) => \A p \in procs : p.act # sessions[i].act
  /\ ( /\ op = "drop" /\ pc \notin { "drop", "td_kill_mic", "td_kill_speaker" }
       /\ sessions[self].drops = 1
       /\ sessions[self].codec # "PhoneGateway" )
       => /\ SubSeq(log, 1, 4) = << Kill("mic"), Wait("mic"),
                                    Kill("speaker"), Wait("speaker") >>
          /\ s.mic_loopback = NoChild
          /\ s.speaker_loopback = NoChild

\* The first drop of a bridge-holding session has returned, both bridges
\* killed.
C15_Witness ==
  /\ Returned("drop")
  /\ sessions[self].drops = 1
  /\ sessions[self].codec \in { "MSbc", "Cvsd" }
  /\ Issued(Kill("mic"))
  /\ Issued(Kill("speaker"))
  /\ \A p \in procs : p.act # sessions[self].act

\* ---------------------------------------------------------------- C16

NeverTrue == wf.from = NeverMs

WaitReturned == op = "wait_for" /\ pc = "returned"

\* C16: with a condition that never becomes true, wait_for returns the
\* timeout error, no earlier than the timeout and no later than the timeout
\* plus one poll interval, and at no moment has it been blocked for longer.
C16_TimeoutWindow ==
  ( op = "wait_for" /\ NeverTrue )
    => /\ elapsed <= wf.timeout + PollMs
       /\ WaitReturned => /\ result.kind = "Err"
                          /\ wf.timeout <= elapsed

\* A 4 s wait on a never-true condition has timed out after 21 evaluations.
C16_Witness ==
  /\ WaitReturned
  /\ NeverTrue
  /\ wf.timeout = TimeoutMs
  /\ result.kind = "Err"
  /\ Len(wf.evals) = 21

\* ---------------------------------------------------------------- C17

\* C17: wait_for evaluates the condition at time 0 and then once after each
\* 200 ms sleep; it returns Ok at the first evaluation that finds the
\* condition true and at no other; it has evaluated at least once when it
\* returns, whatever the timeout; a condition true at time 0 returns Ok
\* without a sleep.
C17_PollSchedule ==
  op = "wait_for"
    => /\ \A k \in DOMAIN wf.evals : wf.evals[k] = (k - 1) * PollMs
       /\ pc = "wf_sleep" => \A k \in DOMAIN wf.evals : ~condition(wf.evals[k])
       /\ WaitReturned
            => /\ Len(wf.evals) >= 1
               /\ elapsed = wf.evals[Len(wf.evals)]
               /\ \A k \in 1..(Len(wf.evals) - 1) : ~condition(wf.evals[k])
               /\ result.kind = "Ok" <=> condition(elapsed)
               /\ condition(0) => result.kind = "Ok" /\ elapsed = 0

\* A condition that turns true at 600 ms has ended the wait at the 600 ms poll.
C17_Witness ==
  /\ WaitReturned
  /\ wf.from = 600
  /\ wf.timeout = TimeoutMs
  /\ result.kind = "Ok"
  /\ wf.evals = << 0, 200, 400, 600 >>

\* ---------------------------------------------------------------- C18

\* switch_to_a2dp has returned, to its public caller or to teardown.
A2dpReturned ==
  \/ Returned("switch_to_a2dp")
  \/ op = "drop" /\ pc = "td_enable"

\* switch_to_a2dp is running or has returned.
InA2dp ==
  \/ op = "switch_to_a2dp" /\ pc \in { "a2dp_try", "returned" }
  \/ op = "drop" /\ pc \in { "a2dp_try", "td_enable" }

IsSetCall(e) == e.cmd = "set-card-profile"

A2dpSets == SelectSeq(log, IsSetCall)

\* The place of each music profile in the order the claim gives.
A2dpRank ==
  [ p \in { "a2dp-sink", "a2dp-sink-aac", "a2dp-sink-sbc_xq", "a2dp-sink-sbc" } |->
      CASE p = "a2dp-sink"        -> 1
        [] p = "a2dp-sink-aac"    -> 2
        [] p = "a2dp-sink-sbc_xq" -> 3
        [] p = "a2dp-sink-sbc"    -> 4 ]

\* switch_to_a2dp may try p: nothing was enumerated, or p was.
A2dpEligible(p) == profiles = {} \/ p \in profiles

\* C18: the set calls of switch_to_a2dp go through a2dp-sink, a2dp-sink-aac,
\* a2dp-sink-sbc_xq, a2dp-sink-sbc in this order, skipping exactly the
\* candidates that a non-empty enumeration does not list, and stop at the
\* first call that succeeds; with a non-empty enumeration no call names a
\* profile the card does not advertise; the result is Ok when the last call
\* succeeded and an error exactly when no call succeeded.
C18_A2dpWalk ==
  InA2dp =>
    LET calls == A2dpSets IN
    /\ \A j \in DOMAIN calls :
         /\ calls[j].arg \in DOMAIN A2dpRank
         /\ A2dpEligible(calls[j].arg)
         /\ profiles # {} => calls[j].arg \in advertised
         /\ calls[j].ok => j = Len(calls)
         /\ \A i \in 1..(j - 1) : A2dpRank[calls[i].arg] < A2dpRank[calls[j].arg]
         /\ \A p \in DOMAIN A2dpRank :
              ( A2dpEligible(p) /\ A2dpRank[p] < A2dpRank[calls[j].arg] )
                => \E i \in 1..(j - 1) : calls[i].arg = p
    /\ A2dpReturned =>
         /\ result.kind = "Ok" <=> \E j \in DOMAIN calls : calls[j].ok
         /\ result.kind = "Err" <=> \A j \in DOMAIN calls : ~calls[j].ok
         /\ result.kind = "Ok" => active = calls[Len(calls)].arg
         /\ result.kind = "Err" =>
              \A p \in DOMAIN A2dpRank :
                A2dpEligible(p) => \E j \in DOMAIN calls : calls[j].arg = p

\* a2dp-sink was refused, a2dp-sink-aac is not advertised and was skipped,
\* a2dp-sink-sbc was set.
C18_Witness ==
  /\ Returned("switch_to_a2dp")
  /\ profiles # {}
  /\ "a2dp-sink-aac" \notin advertised
  /\ A2dpSets = << SetCall("a2dp-sink", FALSE), SetCall("a2dp-sink-sbc", TRUE) >>
  /\ result.kind = "Ok"

\* ---------------------------------------------------------------- C19

\* switch_to_hfp is running.
InHfp == pc \in { "hfp_enum", "hfp_msbc", "hfp_cvsd", "hfp_gateway" }

NoSetSucceeded == \A i \in SetCalls : ~log[i].ok

\* What switch_to_hfp has returned, against its set calls.
HfpErrorExact ==
  HfpReturned =>
    /\ result.kind = "Err" <=> NoSetSucceeded
    /\ result.kind = "Err" =>
         /\ result.err = "NoTelephonyProfile"
         /\ result.profiles = profiles

\* A step of switch_to_hfp only adds to the log of the call, and changes the
\* active profile only by a set call that succeeds, which it logs.
HfpStepKeepsProfile ==
  InHfp =>
    /\ Len(log') >= Len(log) /\ SubSeq(log', 1, Len(log)) = log
    /\ active' = active \/ log' = Append(log, SetCall(active', TRUE))

\* C19: switch_to_hfp returns an error exactly when no set call of it
\* succeeded, none attempted included; the error carries the profiles that
\* were enumerated; and the active profile changes during the call only at a
\* set call that succeeds, so that a call returning the error has left it as
\* it was.
C19_ErrorLeavesProfile ==
  [] HfpErrorExact /\ [][HfpStepKeepsProfile]_vars

\* switch_to_hfp has failed on a card whose music profile was active, after
\* a refused set call, and the error lists the enumerated profiles.
C19_Witness ==
  /\ Returned("switch_to_hfp")
  /\ result = Err("NoTelephonyProfile", profiles)
  /\ profiles # {}
  /\ SetCalls # {}
  /\ NoSetSucceeded
  /\ active \in A2dpProfiles

\* ---------------------------------------------------------------- C20

\* What a returned entry point of the non-Linux build has produced.
StubResults ==
  /\ log = << >>
  /\ \A i \in Slots : sessions[i] = NoSession
  /\ \A name \in { "activate_hfp", "switch_to_hfp", "switch_to_a2dp" } :
       Returned(name) => result.kind = "Err"
  /\ Returned("list_bt_cards") => result.kind = "Ok" /\ result.cards = << >>

\* C20: in the non-Linux build activate_hfp, switch_to_hfp and
\* switch_to_a2dp each return an error, list_bt_cards returns the empty
\* list and no error, and no step issues an external call, builds a session
\* or changes the card, the policy setting or the processes.
C20_StubsDoNothing ==
  [] StubResults /\ [][UNCHANGED << world, sessions >>]_vars

\* activate_hfp has failed for a card that advertises a headset profile,
\* after an earlier call.
C20_Witness ==
  /\ Returned("activate_hfp")
  /\ result.kind = "Err"
  /\ result.err = "PlatformUnsupported"
  /\ "headset-head-unit" \in advertised
  /\ nops >= 2

\* ---------------------------------------------------------------- C21

HfpSets == SelectSeq(log, IsSetCall)

\* The place of a telephony profile in the order the claim gives, for the
\* naming family of the enumerated profiles, and the codec it stands for.
HfpRank(p) ==
  IF p = WidebandName(profiles) THEN 1
  ELSE IF p = NarrowbandName(profiles) THEN 2
  ELSE IF p = "audio-gateway" THEN 3 ELSE 0

CodecOf(p) ==
  IF p = WidebandName(profiles) THEN "MSbc"
  ELSE IF p = NarrowbandName(profiles) THEN "Cvsd" ELSE "PhoneGateway"

\* C21: the set calls of switch_to_hfp name the wideband profile, the
\* narrowband profile and audio-gateway, in this order; no call follows one
\* that succeeded, so at most one succeeds and at most three are issued; and
\* the codec returned is the one of the call that succeeded.
C21_FirstSuccessDecides ==
  ( InHfp \/ HfpReturned ) =>
    LET calls == HfpSets IN
    /\ Len(calls) <= 3
    /\ \A j \in DOMAIN calls :
         /\ HfpRank(calls[j].arg) >= 1
         /\ \A i \in 1..(j - 1) :
              /\ HfpRank(calls[i].arg) < HfpRank(calls[j].arg)
              /\ ~calls[i].ok
         /\ calls[j].ok => ~InHfp
    /\ ( HfpReturned /\ result.kind = "Ok" ) =>
         /\ calls # << >>
         /\ calls[Len(calls)].ok
         /\ result.codec = CodecOf(calls[Len(calls)].arg)
         /\ active = calls[Len(calls)].arg

\* The wideband call was refused and the narrowband call decided the codec.
C21_Witness ==
  /\ Returned("switch_to_hfp")
  /\ result = Ok("Cvsd")
  /\ Len(HfpSets) = 2
  /\ ~HfpSets[1].ok
  /\ HfpSets[1].arg \in advertised

\* ---------------------------------------------------------------- C22

\* C22: switch_to_hfp issues a set call for audio-gateway only for a card
\* that advertises no headset-head-unit profile, and returns PhoneGateway
\* for no card that advertises one.
C22_GatewayOnlyWithoutHeadset ==
  ( InHfp \/ HfpReturned ) =>
    /\ ( \E j \in DOMAIN HfpSets : HfpSets[j].arg = "audio-gateway" )
         => advertised \cap HeadsetProfiles = {}
    /\ ( HfpReturned /\ result = Ok("PhoneGateway") )
         => advertised \cap HeadsetProfiles = {}

\* ---------------------------------------------------------------- C23

\* A bridge spawn of the running activate_hfp call has failed.
SpawnFailed ==
  /\ op = "activate_hfp"
  /\ \E i \in DOMAIN log : log[i].cmd = "spawn" /\ ~log[i].ok

\* The failed spawn is the last external call and the call has returned.
SpawnFailureEnds ==
  SpawnFailed =>
    /\ pc = "returned"
    /\ result.kind = "Err"
    /\ log[Len(log)].cmd = "spawn" /\ ~log[Len(log)].ok
    /\ \A i \in SetCalls : \E j \in DOMAIN log : j > i /\ log[j].cmd = "spawn"

\* C23: after a bridge spawn failed in activate_hfp no set-card-profile call
\* is issued, the failed spawn being the last call before the error is
\* returned; neither the step in which the spawn fails nor any step while
\* the error is being returned changes the card's active profile or its
\* advertised profiles.
C23_SpawnFailureLeavesProfile ==
  /\ [] SpawnFailureEnds
  /\ [][ ( SpawnFailed \/ SpawnFailed' ) => UNCHANGED << active, advertised >> ]_vars

\* activate_hfp has returned the speaker-loopback spawn failure with the
\* telephony profile still active.
C23_Witness ==
  /\ Returned("activate_hfp")
  /\ Issued(Spawn("speaker", FALSE))
  /\ result = Err("speaker-loopback", {})
  /\ active \in HeadsetProfiles

\* ---------------------------------------------------------------- C24

\* Entry e stands in the log before place i.
Before(e, i) == \E j \in 1..(i - 1) : log[j] = e

\* C24: in activate_hfp every bridge spawn comes after the wait that saw the
\* source node and the sink node of the card; the speaker-loopback is
\* spawned only after the mic-loopback was; and the running wait starts, and
\* ends, only after both spawns succeeded.
C24_ActivationOrder ==
  op = "activate_hfp" =>
    /\ \A i \in DOMAIN log :
         /\ log[i].cmd = "spawn" => Before(WaitFor("nodes", TRUE), i)
         /\ ( log[i].cmd = "spawn" /\ log[i].arg = "speaker" )
              => Before(Spawn("mic", TRUE), i)
         /\ ( log[i].cmd = "wait_for" /\ log[i].arg = "running" )
              => Before(Spawn("mic", TRUE), i) /\ Before(Spawn("speaker", TRUE), i)
    /\ pc \in { "act_spawn_mic", "act_spawn_speaker" } => Issued(WaitFor("nodes", TRUE))
    /\ pc = "act_spawn_speaker" => Issued(Spawn("mic", TRUE))
    /\ pc = "act_wait_running" => BothSpawned

\* An activation has gone through the node wait, both spawns and the
\* running wait, in this order.
C24_Witness ==
  /\ Returned("activate_hfp")
  /\ result.kind = "Ok"
  /\ \E a, b, c, d \in DOMAIN log :
       /\ a < b /\ b < c /\ c < d
       /\ log[a] = WaitFor("nodes", TRUE)
       /\ log[b] = Spawn("mic", TRUE)
       /\ log[c] = Spawn("speaker", TRUE)
       /\ log[d] = WaitFor("running", TRUE)

\* ---------------------------------------------------------------- C25

\* The first release of a session that holds bridges.
BridgeRelease ==
  /\ op = "drop"
  /\ sessions[self].drops = 1
  /\ sessions[self].codec # "PhoneGateway"

\* C25: when switch_to_a2dp returns an error to teardown, teardown neither
\* stops nor passes the error on: its next step, re-enabling the autoswitch
\* policy, can be taken, and a release in which no music profile could be set
\* returns Ok with the re-enabling as its last call.
C25_RestoreFailureIgnored ==
  /\ ( op = "drop" /\ pc = "td_enable" /\ result.kind = "Err" ) => ENABLED TdEnable
  /\ ( BridgeRelease /\ pc = "returned" /\ NoSetSucceeded )
       => /\ result = Ok("none")
          /\ log[Len(log)] = Toggle("true")
          /\ \E i \in DOMAIN log : log[i] = ListCards

\* A release has returned after every set call of its music restore was
\* refused; the card is still in the headset profile.
C25_Witness ==
  /\ BridgeRelease
  /\ pc = "returned"
  /\ SetCalls # {}
  /\ NoSetSucceeded
  /\ Issued(Toggle("true"))
  /\ active \in HeadsetProfiles

\* ---------------------------------------------------------------- C26

\* A kill or a wait of the running release has failed.
KillTrouble ==
  \E i \in DOMAIN log : log[i].cmd \in { "kill", "wait" } /\ ~log[i].ok

\* C26: a kill or wait that fails on a bridge does not fail or stop
\* teardown: the handle of that bridge is cleared all the same, the other
\* bridge is killed and waited on, a next step can always be taken until the
\* release returns, and it returns Ok after the settle delay, the music
\* restore and the re-enabling of the autoswitch policy.
C26_KillFailureTolerated ==
  ( BridgeRelease /\ KillTrouble ) =>
    /\ pc # "returned" => ENABLED Run
    /\ s.mic_loopback = NoChild
    /\ pc # "td_kill_speaker" =>
         /\ s.speaker_loopback = NoChild
         /\ Calls(SubSeq(log, 1, 4)) =
              Calls(<< Kill("mic"), Wait("mic"), Kill("speaker"), Wait("speaker") >>)
    /\ pc = "returned" =>
         /\ result = Ok("none")
         /\ Calls(SubSeq(log, 5, 6)) = Calls(<< Sleep, ListCards >>)
         /\ log[Len(log)] = Toggle("true")
         /\ \A p \in procs : p.act # sessions[self].act

\* A release has returned although the kill and the wait of its mic bridge
\* failed; the speaker bridge was killed and music was restored.
C26_Witness ==
  /\ BridgeRelease
  /\ pc = "returned"
  /\ Issued(KillFailed("mic"))
  /\ Issued(WaitFailed("mic"))
  /\ Issued(Kill("speaker"))
  /\ active \in A2dpProfiles

\* ---------------------------------------------------------------- C27

\* What a step that toggles the autoswitch policy does besides the toggle:
\* where it goes on, what it returns and what it leaves alone are fixed by
\* the state before it, whichever way wpctl ends.
ToggleStepFixed ==
  /\ pc = "act_disable" =>
       /\ pc' = "hfp_enum"
       /\ log' = Append(log, Toggle("false"))
       /\ UNCHANGED << result, sessions, procs, active, advertised >>
  /\ ( pc = "act_match" /\ result.kind = "Err" ) =>
       /\ pc' = "returned"
       /\ log' = Append(log, Toggle("true"))
       /\ UNCHANGED << result, sessions, procs, active, advertised >>
  /\ ( pc = "act_match" /\ result = Ok("PhoneGateway") ) =>
       /\ pc' = "returned"
       /\ log' = Append(log, Toggle("true"))
       /\ \E i \in Slots :
            sessions' = [ sessions EXCEPT ![i] = HfpSession("PhoneGateway", NoneInner) ]
       /\ UNCHANGED << result, procs, active, advertised >>
  /\ pc = "td_enable" =>
       /\ pc' = "returned"
       /\ result' = Ok("none")
       /\ log' = Append(log, Toggle("true"))
       /\ UNCHANGED << sessions, procs, active, advertised >>

\* The errors activate_hfp returns: none of them is about the policy.
ActivateErrors ==
  { "NoTelephonyProfile", "NodeTimeout", "mic-loopback", "speaker-loopback" }

\* C27: a toggle of the autoswitch policy that fails is not fatal: every
\* step that toggles it goes on, returns and changes the same whether wpctl
\* succeeds or fails, and activate_hfp returns no error on account of it.
C27_ToggleNeverFatal ==
  /\ [][ToggleStepFixed]_vars
  /\ [] ( ActivateFailed => result.err \in ActivateErrors )

\* The disabling failed (the policy is still on) and activate_hfp has
\* returned a wideband session with both bridges.
C27_Witness ==
  /\ Returned("activate_hfp")
  /\ result = Ok("MSbc")
  /\ BothSpawned
  /\ autoswitch

\* ---------------------------------------------------------------- C28

\* The four music candidates in the order of their priority.
MusicOrder ==
  << "a2dp-sink", "a2dp-sink-aac", "a2dp-sink-sbc_xq", "a2dp-sink-sbc" >>

\* C28: when the enumeration returned nothing, switch_to_a2dp sets the
\* candidates one after the other in priority order, skipping none, until a
\* set call succeeds; it returns Ok at that call and an error only after all
\* four calls were refused.
C28_PermissiveFallback ==
  ( InA2dp /\ profiles = {} ) =>
    LET calls == A2dpSets IN
    /\ Len(calls) <= 4
    /\ \A j \in DOMAIN calls :
         /\ calls[j].arg = MusicOrder[j]
         /\ calls[j].ok => j = Len(calls)
    /\ A2dpReturned =>
         /\ calls # << >>
         /\ result.kind = "Ok" <=> calls[Len(calls)].ok
         /\ result.kind = "Err" <=>
              ( Len(calls) = 4 /\ \A j \in DOMAIN calls : ~calls[j].ok )
         /\ result.kind = "Ok" => active = calls[Len(calls)].arg

\* The enumeration returned nothing for a card that has a2dp-sink-aac and
\* not a2dp-sink: a2dp-sink was tried and refused, a2dp-sink-aac was set.
C28_Witness ==
  /\ Returned("switch_to_a2dp")
  /\ profiles = {}
  /\ "a2dp-sink" \notin advertised
  /\ A2dpSets = << SetCall("a2dp-sink", FALSE), SetCall("a2dp-sink-aac", TRUE) >>
  /\ result.kind = "Ok"
  /\ active = "a2dp-sink-aac"

\* ---------------------------------------------------------------- C29

HfpOnlySwitches ==
  op = "switch_to_hfp" =>
    /\ \A i \in DOMAIN log : log[i].cmd \in { "list-cards", "set-card-profile" }
    /\ pc \in { "hfp_enum", "hfp_msbc", "hfp_cvsd", "hfp_gateway", "returned" }

\* C30: switch_to_hfp, called on its own, changes nothing but the card's
\* active profile: no step of it, the call and the return included, changes
\* the autoswitch policy, the bridge processes or a session, and it issues
\* no wpctl call, no wait, no spawn and no kill, whether it succeeds or
\* fails.
C30_ProfileSwitchOnly ==
  /\ [] HfpOnlySwitches
  /\ [][ ( op = "switch_to_hfp" \/ op' = "switch_to_hfp" )
           => UNCHANGED << autoswitch, procs, sessions, advertised >> ]_vars

\* switch_to_hfp has returned a codec while a session of an earlier
\* activation holds its two bridges.
C30_Witness ==
  /\ Returned("switch_to_hfp")
  /\ result.kind = "Ok"
  /\ active \in HeadsetProfiles
  /\ \E i \in Slots : sessions[i].state = "held" /\ sessions[i].inner.some
  /\ Cardinality(procs) = 2

\* ------------------------------------------------------------- C31

\* The profile enumeration of the running switch_to_hfp came back empty.
NothingEnumerated ==
  /\ profiles = {}
  /\ pc \in { "hfp_msbc", "hfp_cvsd", "hfp_gateway" }

\* C31: when the enumeration of the card's profiles fails or lists nothing,
\* switch_to_hfp issues no set-card-profile call, every step of it leaves the
\* active profile and the log of calls as they are, and it returns the error
\* with an empty profile list.
C31_EmptyEnumerationNoSwitch ==
  /\ []( ( HfpReturned /\ profiles = {} ) =>
           /\ SetCalls = {}
           /\ result = Err("NoTelephonyProfile", {}) )
  /\ [][ /\ pc = "hfp_enum" => active' = active
         /\ NothingEnumerated => active' = active /\ log' = log ]_vars

\* switch_to_hfp has returned its error for a card that has a headset
\* profile and the gateway profile, none of which the enumeration listed.
C31_Witness ==
  /\ Returned("switch_to_hfp")
  /\ profiles = {}
  /\ result = Err("NoTelephonyProfile", {})
  /\ { "headset-head-unit", "audio-gateway" } \subseteq advertised
  /\ Issued(ListCards)

\* ------------------------------------------------- discover.rs
\*
\* discover_gateway(timeout) runs discover_blocking(timeout) on a blocking
\* thread and hands its value on.  The clock `elapsed` counts seconds from the
\* moment the deadline is computed; the deadline is disc.timeout on it.

MaxTimeout == 2
MaxEvents == 3
MaxAddrs == 2

\* An IpAddr by what the code reads of it: the first two octets of an IPv4
\* address; the first and the last segment of an IPv6 address, the segments
\* between being zero.
V4(o0, o1) == [ v |-> 4, a |-> o0, b |-> o1 ]
V6(s0, s7) == [ v |-> 6, a |-> s0, b |-> s7 ]

AddrPool ==
  { V4(10, 0), V4(127, 0), V4(169, 254), V4(169, 1),
    V6(0, 1), V6(65215, 7), V6(8193, 7) }

Ports == { 3000 }

is_ipv4(x) == x.v = 4

\* Ipv4Addr::is_loopback: 127.0.0.0/8.  Ipv6Addr::is_loopback: ::1.
is_loopback(x) == IF x.v = 4 THEN x.a = 127 ELSE x.a = 0 /\ x.b = 1

\* V4: octets()[0] == 169 && octets()[1] == 254
\* V6: (segments()[0] & 0xffc0) == 0xfe80
is_link_local(x) ==
  IF x.v = 4 THEN x.a = 169 /\ x.b = 254
             ELSE (x.a \div 64) * 64 = 65152

\* The addresses the chain find(..).or_else(find(..)).or_else(next()) can
\* give for a set of addresses, whose iteration order is not fixed: empty
\* when the service has no address.
PickAddr(A) ==
  LET routable == { x \in A : is_ipv4(x) /\ ~is_loopback(x) /\ ~is_link_local(x) }
      outward  == { x \in A : ~is_loopback(x) }
  IN  IF routable # {} THEN routable
      ELSE IF outward # {} THEN outward
      ELSE A

\* DiscoveredGateway { url, host, port }: format!("http://{}:{}", host, port)
DiscoveredGateway(x, p) ==
  [ url |-> << "http://", x, ":", p >>, host |-> x, port |-> p ]

\* ServiceEvent::ServiceResolved(info), and the other events.
ServiceResolved(A, p) == [ kind |-> "ServiceResolved", addrs |-> A, port |-> p ]
OtherEvent == [ kind |-> "Other", addrs |-> {}, port |-> 0 ]

ServiceEvents ==
  { OtherEvent } \cup
  { ServiceResolved(A, p) :
      A \in { B \in SUBSET AddrPool : Cardinality(B) <= MaxAddrs }, p \in Ports }

\* receiver.recv_timeout(remaining): Ok(event), Err(Timeout), Err(Disconnected)
Recv(r)       == [ cmd |-> "recv_timeout", arg |-> r, ok |-> r = "Ok" ]
StopBrowse(b) == [ cmd |-> "stop_browse", arg |-> "", ok |-> b ]
Shutdown(b)   == [ cmd |-> "shutdown", arg |-> "", ok |-> b ]

DiscInit ==
  /\ advertised = {}
  /\ active = "off"
  /\ autoswitch = TRUE
  /\ procs = {}
  /\ sessions = [ i \in Slots |-> NoSession ]
  /\ op = "discover_gateway"
  /\ pc = "dg_daemon"
  /\ self = 0
  /\ profiles = {}
  /\ idx = 0
  /\ codec = "none"
  /\ mic_loopback = NoChild
  /\ speaker_loopback = NoChild
  /\ s = NoneInner
  /\ elapsed = 0
  /\ result = NoResult
  /\ log = << >>
  /\ nops = 0
  /\ nact = 0
  /\ wf = NoWait
  /\ \E t \in 0..MaxTimeout : disc = [ NoDisc EXCEPT !.timeout = t ]
  /\ cli = NoCli
  /\ before = FALSE

DiscFrame ==
  UNCHANGED << world, sessions, op, self, profiles, idx, codec, mic_loopback,
               speaker_loopback, s, result, nops, nact, wf, cli, before >>

\* let mdns = ServiceDaemon::new().inspect_err(..).ok()?;
DgDaemon ==
  /\ pc = "dg_daemon"
  /\ \/ /\ disc' = [ disc EXCEPT !.mdns = "running" ]
        /\ pc' = "dg_browse"
     \/ /\ disc' = [ disc EXCEPT !.result = None ]
        /\ pc' = "returned"
  /\ UNCHANGED << elapsed, log >>
  /\ DiscFrame

\* let receiver = mdns.browse(SERVICE_TYPE).inspect_err(..).ok()?;
\* let deadline = Instant::now() + timeout;
DgBrowse ==
  /\ pc = "dg_browse"
  /\ \/ /\ disc' = [ disc EXCEPT !.browse = "browsing" ]
        /\ pc' = "dg_loop"
     \/ /\ disc' = [ disc EXCEPT !.result = None ]
        /\ pc' = "returned"
  /\ elapsed' = 0
  /\ UNCHANGED log
  /\ DiscFrame

\* let remaining = deadline.saturating_duration_since(Instant::now());
\* if remaining.is_zero() { break None; }
DgLoop ==
  /\ pc = "dg_loop"
  /\ IF elapsed >= disc.timeout
       THEN /\ disc' = [ disc EXCEPT !.result = None ]
            /\ pc' = "dg_stop"
       ELSE /\ pc' = "dg_recv"
            /\ UNCHANGED disc
  /\ UNCHANGED << elapsed, log >>
  /\ DiscFrame

\* What a resolved service does to the scan: break Some(..) with one of the
\* addresses the chain can give, or, with no address, the `?` at the end of
\* the chain, which returns None from discover_blocking there and then.
Resolved(e) ==
  IF PickAddr(e.addrs) = {}
    THEN /\ disc' = [ disc EXCEPT !.events = Append(@, e), !.result = None ]
         /\ pc' = "returned"
    ELSE /\ \E x \in PickAddr(e.addrs) :
              disc' = [ disc EXCEPT !.events = Append(@, e),
                                    !.result = Some(DiscoveredGateway(x, e.port)) ]
         /\ pc' = "dg_stop"

\* match receiver.recv_timeout(remaining) {
\*   Ok(ServiceEvent::ServiceResolved(info)) => { .. break Some(..) }
\*   Ok(_) => continue,
\*   Err(_) => break None,   // channel closed or timed out
\* An event comes before the deadline, or the wait times out at the
\* deadline, or the channel is closed.
DgRecv ==
  /\ pc = "dg_recv"
  /\ \/ /\ Len(disc.events) < MaxEvents
        /\ \E e \in ServiceEvents, t \in elapsed..disc.timeout :
             /\ elapsed' = t
             /\ Emit(Recv("Ok"))
             /\ IF e.kind = "ServiceResolved"
                  THEN Resolved(e)
                  ELSE /\ disc' = [ disc EXCEPT !.events = Append(@, e) ]
                       /\ pc' = "dg_loop"
     \/ /\ elapsed' = disc.timeout
        /\ Emit(Recv("Timeout"))
        /\ disc' = [ disc EXCEPT !.result = None ]
        /\ pc' = "dg_stop"
     \/ /\ Emit(Recv("Disconnected"))
        /\ disc' = [ disc EXCEPT !.result = None ]
        /\ pc' = "dg_stop"
        /\ UNCHANGED elapsed
  /\ DiscFrame

\* let _ = mdns.stop_browse(SERVICE_TYPE);
DgStopBrowse ==
  /\ pc = "dg_stop"
  /\ \E ok \in BOOLEAN :
       /\ Emit(StopBrowse(ok))
       /\ disc' = [ disc EXCEPT !.browse = IF ok THEN "stopped" ELSE @ ]
  /\ pc' = "dg_shutdown"
  /\ UNCHANGED elapsed
  /\ DiscFrame

\* let _ = mdns.shutdown();
\* result
DgShutdown ==
  /\ pc = "dg_shutdown"
  /\ \E ok \in BOOLEAN :
       /\ Emit(Shutdown(ok))
       /\ disc' = [ disc EXCEPT !.mdns = IF ok THEN "shutdown" ELSE @ ]
  /\ pc' = "returned"
  /\ UNCHANGED elapsed
  /\ DiscFrame

DiscNext ==
  \/ DgDaemon
  \/ DgBrowse
  \/ DgLoop
  \/ DgRecv
  \/ DgStopBrowse
  \/ DgShutdown

DiscSpec == DiscInit /\ [][DiscNext]_vars

\* ------------------------------------------------------------- C32

\* discover_blocking has returned after it had started the browse.
ScanReturned == pc = "returned" /\ disc.browse # "none"

Called(c) == \E i \in DOMAIN log : log[i].cmd = c

\* C32: on every return of discover_blocking after the browse was started
\* (gateway found, deadline passed, channel closed, resolved service without
\* an address) stop_browse and shutdown have been called on the daemon.
C32_CleanupOnEveryReturn ==
  ScanReturned => Called("stop_browse") /\ Called("shutdown")

\* ------------------------------------------------------------- C33

Usable(e) == e.kind = "ServiceResolved" /\ e.addrs # {}

DeadlinePassed == elapsed >= disc.timeout

ChannelClosed == Issued(Recv("Disconnected"))

\* C33: the scan returns the first resolved service that has an address,
\* with one of the addresses of that service; a resolved service without an
\* address is passed over, so that None is returned only when the deadline
\* has passed, or the channel was closed, with no usable service resolved.
C33_FirstUsableReturned ==
  ScanReturned =>
    LET n == Len(disc.events) IN
    IF ~disc.result.some
      THEN /\ \A k \in 1..n : ~Usable(disc.events[k])
           /\ DeadlinePassed \/ ChannelClosed
      ELSE /\ n >= 1
           /\ Usable(disc.events[n])
           /\ \A k \in 1..(n - 1) : ~Usable(disc.events[k])
           /\ disc.result.v.host \in disc.events[n].addrs
           /\ disc.result.v.port = disc.events[n].port

\* ------------------------------------------------- main.rs: dial call
\*
\* run(cli) for Commands::Call { device_id, number, bt_mac }.  Strings are
\* sequences of one-character strings.

MinDigits == 7
MaxDigits == 15

Whitespace == { " ", "\t" }
AsciiDigits == { "0", "1", "2", "3", "4", "5", "6", "7", "8", "9" }

RECURSIVE trim_start(_)
trim_start(str) ==
  IF str # << >> /\ Head(str) \in Whitespace THEN trim_start(Tail(str)) ELSE str

RECURSIVE trim_end(_)
trim_end(str) ==
  IF str # << >> /\ str[Len(str)] \in Whitespace
    THEN trim_end(SubSeq(str, 1, Len(str) - 1))
    ELSE str

\* str::trim
trim(str) == trim_end(trim_start(str))

\* number.strip_prefix('+').unwrap_or(number)
strip_plus(number) ==
  IF number # << >> /\ Head(number) = "+" THEN Tail(number) ELSE number

\* pub fn validate_phone(number: &str) -> Result<(), DialError>
validate_phone(number) ==
  LET digits_only == strip_plus(number)
      all_digits  == \A i \in DOMAIN digits_only : digits_only[i] \in AsciiDigits
      len_ok      == Len(digits_only) >= MinDigits /\ Len(digits_only) <= MaxDigits
  IN  all_digits /\ len_ok

\* format!("bluez_card.{}", mac.replace(':', "_"))
mac_to_card_name(mac) ==
  << "bluez_card." >> \o [ i \in DOMAIN mac |-> IF mac[i] = ":" THEN "_" ELSE mac[i] ]

Ones(n) == [ i \in 1..n |-> "1" ]

DeviceIds == { << >>, << " " >>, << " ", "\t" >>, << "d" >>, << " ", "d", " " >> }

Numbers ==
  LET lens == { 0, MinDigits - 1, MinDigits, MaxDigits, MaxDigits + 1 } IN
    { Ones(n) : n \in lens }
      \cup { << "+" >> \o Ones(n) : n \in lens }
      \cup { << "+", "+" >> \o Ones(MinDigits),
             Ones(MinDigits) \o << "+" >>,
             Ones(MinDigits) \o << "x" >>,
             << " " >> \o Ones(MinDigits) }

Macs == { << "A", "A", ":", "B", "B" >> }

\* Option<String>
OptMacs == { None } \cup { Some(m) : m \in Macs }

\* Option::or_else
or_else(a, b) == IF a.some THEN a ELSE b

Discover     == [ cmd |-> "discover_gateway", arg |-> "", ok |-> TRUE ]
PostCall(b)  == [ cmd |-> "POST /call", arg |-> "", ok |-> b ]

ConfigErrors == { "ConfigRead", "ConfigParse", "GatewayError", "Unauthorized" }
CallErrors == { "Http", "Unauthorized", "DeviceOffline", "GatewayError" }

DialInit ==
  /\ advertised \in { P \in SUBSET ProfileNames : Cardinality(P) <= MaxProfiles }
  /\ active = "off"
  /\ autoswitch = TRUE
  /\ procs = {}
  /\ sessions = [ i \in Slots |-> NoSession ]
  /\ op = "dial_call"
  /\ pc = "dial_device"
  /\ self = 0
  /\ profiles = {}
  /\ idx = 0
  /\ codec = "none"
  /\ mic_loopback = NoChild
  /\ speaker_loopback = NoChild
  /\ s = NoneInner
  /\ elapsed = 0
  /\ result = NoResult
  /\ log = << >>
  /\ nops = 0
  /\ nact = 0
  /\ wf = NoWait
  /\ disc = NoDisc
  /\ \E d \in DeviceIds, n \in Numbers, m \in OptMacs :
       cli = [ NoCli EXCEPT !.device_id = d, !.number = n, !.bt_mac = m ]
  /\ before = FALSE

DialFrame ==
  UNCHANGED << world, sessions, op, self, locals, nops, nact, wf, disc,
               before >>

\* if device_id.trim().is_empty() { return Err(DialError::EmptyDeviceId); }
DialCheckDevice ==
  /\ pc = "dial_device"
  /\ IF trim(cli.device_id) = << >>
       THEN pc' = "returned" /\ result' = Err("EmptyDeviceId", {})
       ELSE pc' = "dial_phone" /\ UNCHANGED result
  /\ UNCHANGED << log, cli >>
  /\ DialFrame

\* validate_phone(&number)?;
DialValidatePhone ==
  /\ pc = "dial_phone"
  /\ IF validate_phone(cli.number)
       THEN pc' = "dial_config" /\ UNCHANGED result
       ELSE pc' = "returned" /\ result' = Err("InvalidPhoneNumber", {})
  /\ UNCHANGED << log, cli >>
  /\ DialFrame

\* let config = resolve_config(timeout_secs).await?;
\* let effective_bt_mac = bt_mac.or_else(|| config.bt_mac.clone());
\* let bt_card_name = effective_bt_mac.as_deref().map(mac_to_card_name);
\* if let Some(ref card) = bt_card_name { match switch_to_hfp(card) { .. } }
\* resolve_config fails, or gives the config, after a scan of the LAN when
\* the configured URL is the placeholder.
DialResolveConfig ==
  /\ pc = "dial_config"
  /\ \E scanned \in BOOLEAN :
       /\ log' = IF scanned THEN Append(log, Discover) ELSE log
       /\ \/ \E e \in ConfigErrors :
               /\ result' = Err(e, {})
               /\ pc' = "returned"
               /\ UNCHANGED cli
          \/ \E m \in OptMacs :
               LET effective_bt_mac == or_else(cli.bt_mac, m) IN
                 /\ cli' = [ cli EXCEPT
                               !.config_bt_mac = m,
                               !.bt_card_name =
                                 IF effective_bt_mac.some
                                   THEN Some(mac_to_card_name(effective_bt_mac.v))
                                   ELSE None ]
                 /\ pc' = IF effective_bt_mac.some THEN "hfp_enum" ELSE "dial_post"
                 /\ UNCHANGED result
  /\ DialFrame

\* (a bug: a failed switch ends the command with DialError::Bluetooth)
DialSwitched_M ==
  /\ pc = "dial_switched"
  /\ IF result.kind = "Err"
       THEN pc' = "returned" /\ result' = Err("Bluetooth", {})
       ELSE pc' = "dial_post" /\ result' = NoResult
  /\ UNCHANGED << log, cli >>
  /\ DialFrame

\* match switch_to_hfp(card) { Ok(..) => println!(..), Err(e) => eprintln!(..) }
\* let client = GatewayClient::new(&config);
DialSwitched ==
  /\ pc = "dial_switched"
  /\ pc' = "dial_post"
  /\ result' = NoResult
  /\ UNCHANGED << log, cli >>
  /\ DialFrame

\* let result = client.call(&device_id, &number).await?;
DialPost ==
  /\ pc = "dial_post"
  /\ \/ /\ Emit(PostCall(TRUE))
        /\ result' = Ok("none")
     \/ /\ Emit(PostCall(FALSE))
        /\ \E e \in CallErrors : result' = Err(e, {})
  /\ pc' = "returned"
  /\ UNCHANGED cli
  /\ DialFrame

DialNext ==
  \/ DialCheckDevice
  \/ DialValidatePhone
  \/ DialResolveConfig
  \/ HfpEnumerate
  \/ HfpTryMsbc
  \/ HfpTryCvsd
  \/ HfpTryGateway
  \/ DialSwitched
  \/ DialPost

DialSpec == DialInit /\ [][DialNext]_vars

\* ------------------------------------------------------------- C34

\* A device id of white space only, the empty one included.
Blank(d) == \A i \in DOMAIN d : d[i] \in Whitespace

\* E.164 as validate_phone documents it: an optional +, then 7 to 15 digits.
E164(n) ==
  \E k \in MinDigits..MaxDigits :
    \/ Len(n) = k /\ \A i \in 1..k : n[i] \in AsciiDigits
    \/ Len(n) = k + 1 /\ n[1] = "+" /\ \A i \in 2..(k + 1) : n[i] \in AsciiDigits

DialReturned == pc = "returned" /\ op = "dial_call"

\* The command ran switch_to_hfp and no set call of it succeeded.
SwitchFailed == Issued(ListCards) /\ NoSetSucceeded

\* C34: `dial call` with an empty device id or an invalid number ends in the
\* validation error with no command issued: no profile enumeration, no set
\* call, no scan, no request to the gateway, and the active profile as it
\* was.  No command is issued before both validations passed.  When the
\* Bluetooth switch was run and failed, the command goes on: its last call is
\* the POST /call request and its result is the result of that request.
C34_ValidateFirstSwitchBestEffort ==
  /\ log # << >> => ~Blank(cli.device_id) /\ E164(cli.number)
  /\ ( Blank(cli.device_id) \/ ~E164(cli.number) ) =>
       /\ pc \in { "dial_device", "dial_phone", "returned" }
       /\ active = "off"
       /\ DialReturned =>
            result = IF Blank(cli.device_id) THEN Err("EmptyDeviceId", {})
                                             ELSE Err("InvalidPhoneNumber", {})
  /\ ( DialReturned /\ SwitchFailed ) =>
       /\ log[Len(log)].cmd = "POST /call"
       /\ result.kind = "Ok" <=> log[Len(log)].ok
       /\ result.kind = "Err" => result.err \in CallErrors
       /\ active = "off"

\* The command was given a card that has a headset profile; both set calls
\* for it were refused, and the call request was sent and accepted.
C34_Witness ==
  /\ DialReturned
  /\ SwitchFailed
  /\ Issued(SetCall("headset-head-unit-msbc", FALSE))
  /\ Issued(SetCall("headset-head-unit", FALSE))
  /\ cli.bt_card_name = Some(<< "bluez_card.", "A", "A", "_", "B", "B" >>)
  /\ log[Len(log)] = PostCall(TRUE)
  /\ result = Ok("none")

\* ------------------------------------------------- several sessions
\*
\* The entry points of the session API with room for one session more than
\* MaxSessions, so that an activation can run while a session is held.

MaxHeld == MaxSessions + 1

PolicyInit ==
  /\ advertised \in { P \in SUBSET ProfileNames : Cardinality(P) <= MaxProfiles }
  /\ active = "off"
  /\ autoswitch \in BOOLEAN
  /\ procs = {}
  /\ sessions = [ i \in 1..MaxHeld |-> NoSession ]
  /\ op = "none"
  /\ pc = "idle"
  /\ self = 0
  /\ profiles = {}
  /\ idx = 0
  /\ codec = "none"
  /\ mic_loopback = NoChild
  /\ speaker_loopback = NoChild
  /\ s = NoneInner
  /\ elapsed = 0
  /\ result = NoResult
  /\ log = << >>
  /\ nops = 0
  /\ nact = 0
  /\ wf = NoWait
  /\ disc = NoDisc
  /\ cli = NoCli
  /\ before = FALSE

PolicyNext ==
  \/ CallActivateHfp
  \/ \E i \in DOMAIN sessions : CallDrop(i)
  \/ Run

PolicySpec == PolicyInit /\ [][PolicyNext]_vars

\* ------------------------------------------------------------- C35

\* Session i is held and its two bridge processes are alive.
HoldsLiveBridges(i) ==
  /\ sessions[i].state = "held"
  /\ sessions[i].inner.some
  /\ sessions[i].inner.mic_loopback \in procs
  /\ sessions[i].inner.speaker_loopback \in procs

\* C35: while some session holds live bridge processes, no step of another
\* activation or of another session's release turns the autoswitch policy on
\* again.
C35_PolicyStaysDisabled ==
  [][ \A i \in DOMAIN sessions :
        ( HoldsLiveBridges(i) /\ HoldsLiveBridges(i)' ) =>
          ~( ~autoswitch /\ autoswitch' ) ]_vars


\* ------------------------------------------------- the guard, observed
\*
\* The session API called by a caller that has read the autoswitch setting
\* before its first call.

GuardInit ==
  /\ advertised \in { P \in SUBSET ProfileNames : Cardinality(P) <= MaxProfiles }
  /\ active = "off"
  /\ autoswitch \in BOOLEAN
  /\ procs = {}
  /\ sessions = [ i \in Slots |-> NoSession ]
  /\ op = "none"
  /\ pc = "idle"
  /\ self = 0
  /\ profiles = {}
  /\ idx = 0
  /\ codec = "none"
  /\ mic_loopback = NoChild
  /\ speaker_loopback = NoChild
  /\ s = NoneInner
  /\ elapsed = 0
  /\ result = NoResult
  /\ log = << >>
  /\ nops = 0
  /\ nact = 0
  /\ wf = NoWait
  /\ disc = NoDisc
  /\ cli = NoCli
  /\ before = autoswitch

GuardNext ==
  \/ CallActivateHfp
  \/ \E i \in DOMAIN sessions : CallDrop(i)
  \/ Run

GuardSpec == GuardInit /\ [][GuardNext]_vars

\* ------------------------------------------------------------- C36

\* The first call was activate_hfp, and it has failed, or its session was
\* built and the second call, the release of that session, has returned.
ActivationSettled ==
  \/ ActivateFailed /\ nops = 1
  \/ /\ Returned("drop")
     /\ nops = 2
     /\ nact = 1
     /\ sessions[self].act = 1
     /\ sessions[self].drops = 1

\* C36: the guard restores the policy: once an activation has failed, or has
\* succeeded and its session was released, the autoswitch setting has the
\* value it had before the activation, true or false.
C36_GuardRestores == ActivationSettled => autoswitch = before

\* ------------------------------------------------- activate_hfp, run on
\*
\* activate_hfp on its thread: once called, it takes its next step as long as
\* it has one, each external command returning.  The caller calls it up to
\* MaxHeld times.

ActivateStep ==
  \/ ActDisableAutoswitch
  \/ HfpEnumerate
  \/ HfpTryMsbc
  \/ HfpTryCvsd
  \/ HfpTryGateway
  \/ ActSwitchFailed
  \/ ActGateway
  \/ ActDeriveNodes
  \/ ActWaitNodes
  \/ ActSpawnMic
  \/ ActSpawnSpeaker
  \/ ActWaitRunning

TermNext ==
  \/ nact < MaxHeld /\ CallActivateHfp
  \/ Return
  \/ ActivateStep

TermSpec == Init /\ [][TermNext]_vars /\ WF_vars(ActivateStep)

\* ------------------------------------------------------------- C37

InWait == pc \in { "act_wait_nodes", "act_wait_running" }

\* The times at which a wait of 4 s that polls every 200 ms evaluates its
\* condition: timeout / 200 ms + 1 of them.
PollTimes == { k * PollMs : k \in 0..(TimeoutMs \div PollMs) }

Activating == op = "activate_hfp" /\ pc # "returned"

\* activate_hfp has returned, with a session or with an error.
ActivationEnded ==
  /\ Returned("activate_hfp")
  /\ \/ result.kind = "Ok" /\ \E i \in Slots : Built(i)
     \/ result.kind = "Err"

\* C37: every activate_hfp call ends, with a returned session or a returned
\* error.  Each of its two waits evaluates its condition at most
\* timeout / 200 ms + 1 times: an evaluation that does not end the wait moves
\* the clock of the wait on by 200 ms, and the clock never passes the timeout.
C37_ActivationTerminates ==
  /\ []( InWait => elapsed \in PollTimes )
  /\ [][ ( InWait /\ pc' = pc ) => elapsed' = elapsed + PollMs ]_vars
  /\ Activating ~> ActivationEnded

\* An activation has returned its session after the running wait had used
\* all of its evaluations without seeing both nodes running.
C37_Witness ==
  /\ ActivationEnded
  /\ result.kind = "Ok"
  /\ Issued(WaitFor("nodes", TRUE))
  /\ Issued(WaitFor("running", FALSE))
=============================================================================
